---- MODULE Spec2Model ----
(***************************************************************************)
(* Planning potential and coverage analysis engine of Mikro1.0:            *)
(*   - k-d tree nearest-station search   (src/src/store/planningSlice.ts)  *)
(*   - coverage marking of grid cells    (src/src/store/planningSlice.ts)  *)
(*   - potential surface / heat points   (src/unnamed/part_012)            *)
(*   - six-factor suitability score (src/src/services/loadStationsFromCsv.ts) *)
(*   - candidate score of the planning view (src/src/pages/PlanningView.tsx) *)
(*   - hexagonal coverage grid           (src/src/store/planningSlice.ts)  *)
(*   - static layers of the base grid    (src/unnamed/part_012)            *)
(*   - mapping of the existing stations  (src/src/store/planningSlice.ts)  *)
(*   - planned stations of the map (src/src/features/planning/PlanningMap.tsx) *)
(*   - debounced heat points of the map (the same file)                    *)
(*   - single-point and multi-proposal planning view                       *)
(*                                         (src/src/pages/PlanningView.tsx) *)
(*                                                                         *)
(* Numbers.  The program computes in IEEE doubles; the model computes in   *)
(* integers:                                                               *)
(*   coordinates        millidegrees (lat 50.004 is 50004)                 *)
(*   distances, radii   metres, haversine rounded to the nearest metre     *)
(*   heat quantities    1/HeatScale (weights, layer scores, exp values)    *)
(*   score quantities   weights in hundredths, normalised values in     *)
(*                      1/NormScale, quotients exact                    *)
(*   hexagonal grid     microdegrees, distances in metres                  *)
(*   candidate score    raw totals in halves                               *)
(***************************************************************************)
EXTENDS Integers, Sequences, FiniteSets, TLC

VARIABLES
    \* ---- nearest-neighbour searcher (createNearestNeighborSearcher) ----
    stations,      \* the caller's station array handed to the searcher
    tree,          \* const tree = buildKdTree(stations)
    target,        \* argument of the running search
    limit,         \* argument of the running search
    best,          \* const best: NearestStationHit[] of the running search
    callStack,     \* activation records of traverse(), innermost last
    searchResult,  \* value returned by the last finished search
    pc,            \* "new" | "ready" | "searching" | "done"
    \* ---- coverage analysis (markCoverageGaps) ----
    gridCells,         \* the caller's cell array
    existingStations,  \* the caller's station array
    coverageCells,     \* the array markCoverageGaps returned last
    covPc,             \* "idle" | "marked"
    \* ---- potential surface (computeHeatPoints) ----
    heatGrid,          \* grid: PotentialGridCell[]
    heatStations,      \* stations: PlanningStation[]
    heatWeights,       \* weights: PotentialWeights
    heatPoints,        \* the HeatPoint[] computeHeatPoints returned last
    heatPc,            \* "idle" | "computed"
    \* ---- suitability scorer (computeScore, mapScoreToBand) ----
    scoreFactors,      \* the exported scoringFactors array (key, weight)
    scoreInput,        \* input: RawMetricInput of computeScore, or NoInput
    scoreResult,       \* the ScoreResult computeScore returned
    bandScore,         \* score handed to mapScoreToBand directly
    bandResult,        \* the ScoreBand mapScoreToBand returned for it
    scorePc,           \* "idle" | "scored" | "mapped"
    \* ---- candidate scorer of the planning view (calculateScore) ----
    calcCtx,           \* ctx argument of the last call: <<>> is null
    calcNb,            \* nb argument of the last call: <<>> is null
    calcScore,         \* value the last call returned: <<>> is null
    calcPc,            \* "idle" | "done"
    \* ---- hex grid builder (buildHexGrid) ----
    hexSeeds,          \* points: the seed array
    hexRadius,         \* cellRadiusMeters
    hexLat,            \* let lat of the outer loop
    hexLng,            \* let lng of the inner loop
    hexRow,            \* let row
    hexCells,          \* const cells, returned when hexPc = "done"
    hexPc,             \* "idle" | "outer" | "inner" | "done"
    \* ---- static layers of the potential surface (createBaseGrid) ----
    baseGridPoints,    \* const gridPoints: the sample points
    baseGrid,          \* the PotentialGridCell[] createBaseGrid returned
    basePc,            \* "idle" | "created"
    \* ---- station mapping (mapExistingStations) ----
    rawStations,       \* stations: the array handed to mapExistingStations
    mappedStations,    \* the ExistingStation[] it returned
    mapPc,             \* "idle" | "mapped"
    \* ---- planned stations of the planning map (createPlanningActions) ----
    planningStations,  \* stations: the React state of PlanningMap
    storedStations,    \* localStorage 'planningStations': <<>> or <<JSON>>
    urlStations,       \* query parameter 'planning': <<>> or <<JSON>>
    pendingLookup,     \* pendingLookup.current: <<>> or <<lookup>> (timer)
    lookupsInFlight,   \* reverseGeocode calls that have not answered yet
    clock,             \* Date.now()
    hasRandomUUID,     \* "randomUUID" in crypto
    idsCreated,        \* number of createId calls
    returnedId,        \* <<>> or <<id>>: what the last addStation returned
    lastClick,         \* <<>> or <<station>>: argument of the last addStation
    clicks,            \* map clicks since the list was last empty or loaded
    baseCount,         \* stations in the list when the count of clicks began
    planPc,            \* "off" | "loaded" | the planning action run last
    \* ---- single-point planning view (PlanningView.handleClick) ----
    viewPoint,         \* point: <<>> or <<the point clicked last>>
    context,           \* <<>> or <<PlanningContextResponse>>
    nearby,            \* <<>> or <<NearbyStationsResponse>>
    loading,           \* boolean
    error,             \* <<>> or <<message>>
    handleClickCalls,  \* the calls of handleClick and their two fetches
    viewPc,            \* "off" | "mounted"
    \* ---- debounced recomputation of the heat points (PlanningMap) ----
    pendingTimers,     \* timers of the debounce effect that have not fired
    effectRuns,        \* runs of the debounce effect; the last timer's id
    effectPending,     \* stations or weights changed, effect not yet run
    changes,           \* changes of stations or weights so far
    debouncePc,        \* "off" | "mounted"
    \* ---- multi-proposal planning view (PlanningView) ----
    proposals,         \* Proposal[]
    selectedId,        \* <<>> or <<id>>
    compareIds,        \* string[]
    bestId,            \* <<>> or <<id>>
    saveError,         \* <<>> or <<message>>
    saveOk,            \* <<>> or <<message>>
    proposalCalls,     \* the calls of handleClick: the id each created,
                       \* whether its fetches have settled, and how many
                       \* proposals its updater then changed
    dateNow,           \* the value Date.now() returned last
    savedProposal,     \* <<>> or <<the payload posted to the backend last>>
    proposalsPc        \* "off" | "mounted" | the handler that ran last

searchVars == <<stations, tree, target, limit, best, callStack, searchResult, pc>>

covVars == <<gridCells, existingStations, coverageCells, covPc>>

heatVars == <<heatGrid, heatStations, heatWeights, heatPoints, heatPc>>

scoreVars ==
    <<scoreFactors, scoreInput, scoreResult, bandScore, bandResult, scorePc>>

calcVars == <<calcCtx, calcNb, calcScore, calcPc>>

hexVars == <<hexSeeds, hexRadius, hexLat, hexLng, hexRow, hexCells, hexPc>>

baseGridVars == <<baseGridPoints, baseGrid, basePc>>

mapStationsVars == <<rawStations, mappedStations, mapPc>>

planningVars ==
    <<planningStations, storedStations, urlStations, pendingLookup,
      lookupsInFlight, clock, hasRandomUUID, idsCreated, returnedId,
      lastClick, clicks, baseCount, planPc>>

viewVars ==
    <<viewPoint, context, nearby, loading, error, handleClickCalls,
      viewPc>>

debounceVars ==
    <<pendingTimers, effectRuns, effectPending, changes, debouncePc>>

proposalsVars ==
    <<proposals, selectedId, compareIds, bestId, saveError, saveOk,
      proposalCalls, dateNow, savedProposal, proposalsPc>>

vars ==
    <<searchVars, covVars, heatVars, scoreVars, calcVars, hexVars,
      baseGridVars, mapStationsVars, planningVars, viewVars, debounceVars,
      proposalsVars>>

\* What the actions of one component leave alone.
nonSearchVars ==
    <<covVars, heatVars, scoreVars, calcVars, hexVars, baseGridVars,
      mapStationsVars, planningVars, viewVars, debounceVars, proposalsVars>>

nonCovVars ==
    <<searchVars, heatVars, scoreVars, calcVars, hexVars, baseGridVars,
      mapStationsVars, planningVars, viewVars, debounceVars, proposalsVars>>

nonHeatVars ==
    <<searchVars, covVars, scoreVars, calcVars, hexVars, baseGridVars,
      mapStationsVars, planningVars, viewVars, debounceVars, proposalsVars>>

nonScoreVars ==
    <<searchVars, covVars, heatVars, calcVars, hexVars, baseGridVars,
      mapStationsVars, planningVars, viewVars, debounceVars, proposalsVars>>

nonCalcVars ==
    <<searchVars, covVars, heatVars, scoreVars, hexVars, baseGridVars,
      mapStationsVars, planningVars, viewVars, debounceVars, proposalsVars>>

nonHexVars ==
    <<searchVars, covVars, heatVars, scoreVars, calcVars, baseGridVars,
      mapStationsVars, planningVars, viewVars, debounceVars, proposalsVars>>

nonBaseGridVars ==
    <<searchVars, covVars, heatVars, scoreVars, calcVars, hexVars,
      mapStationsVars, planningVars, viewVars, debounceVars, proposalsVars>>

nonMapStationsVars ==
    <<searchVars, covVars, heatVars, scoreVars, calcVars, hexVars,
      baseGridVars, planningVars, viewVars, debounceVars, proposalsVars>>

nonPlanningVars ==
    <<searchVars, covVars, heatVars, scoreVars, calcVars, hexVars,
      baseGridVars, mapStationsVars, viewVars, debounceVars, proposalsVars>>

nonViewVars ==
    <<searchVars, covVars, heatVars, scoreVars, calcVars, hexVars,
      baseGridVars, mapStationsVars, planningVars, debounceVars,
      proposalsVars>>

nonDebounceVars ==
    <<searchVars, covVars, heatVars, scoreVars, calcVars, hexVars,
      baseGridVars, mapStationsVars, planningVars, viewVars, proposalsVars>>

nonHeatNorDebounceVars ==
    <<searchVars, covVars, scoreVars, calcVars, hexVars, baseGridVars,
      mapStationsVars, planningVars, viewVars, proposalsVars>>

nonProposalsVars ==
    <<searchVars, covVars, heatVars, scoreVars, calcVars, hexVars,
      baseGridVars, mapStationsVars, planningVars, viewVars, debounceVars>>

----------------------------------------------------------------------------
(* Bounds of the model *)

MaxStations == 4
MaxLimit == 3
MaxCells == 2
MaxCoverageStations == 2
MaxGridCells == 2
MaxHeatStations == 2
MaxHexCells == 24
MaxHexRows == 12
MaxSamplePoints == 3
MaxRawStations == 3
MaxIds == 3
MaxClock == 2
MaxSavedIds == 1
MaxViewClicks == 3
MaxChanges == 3
MaxProposalClicks == 2
MaxSavedProposalClicks == 3
MaxDateNow == 2

----------------------------------------------------------------------------
(* Generic helpers *)

Abs(x) == IF x < 0 THEN -x ELSE x

Min(a, b) == IF a < b THEN a ELSE b

Range(s) == {s[i] : i \in 1..Len(s)}

SeqsUpTo(S, n) == UNION {[1..m -> S] : m \in 0..n}

Front(s) == SubSeq(s, 1, Len(s) - 1)

Last(s) == s[Len(s)]

\* Array.prototype.sort with comparator (a, b) => key(a) - key(b): a stable
\* sort (ECMAScript 2019), here by insertion from the left; an element goes
\* behind every element whose key is less than or equal to its own.
RECURSIVE InsertByKey(_, _, _)
InsertByKey(x, sorted, key) ==
    IF sorted = <<>> THEN <<x>>
    ELSE IF key[Last(sorted)] <= key[x] THEN Append(sorted, x)
    ELSE Append(InsertByKey(x, Front(sorted), key), Last(sorted))

RECURSIVE StableSort(_, _)
StableSort(s, key) ==
    IF s = <<>> THEN <<>>
    ELSE InsertByKey(Last(s), StableSort(Front(s), key), key)

----------------------------------------------------------------------------
(* GeoMath *)

\* Values of haversineDistanceMeters (R = 6371000) on the coordinates the
\* model uses, rounded to the nearest metre.  Key: <<origin.lat, target.lat,
\* |target.lng - origin.lng|>> in millidegrees.  On these coordinates the
\* rounding keeps every comparison between two distances from the same
\* origin as the doubles decide it.
HaversineTable ==
    <<0, 0, 0>> :> 0 @@
    <<0, 0, 1000>> :> 111195 @@
    <<0, 0, 9000>> :> 1000754 @@
    <<0, 0, 269000>> :> 10118738 @@
    <<0, 0, 279000>> :> 9006789 @@
    <<0, 0, 358000>> :> 222390 @@
    <<0, 3000, 0>> :> 333585 @@
    <<0, 80000, 0>> :> 8895594 @@
    <<0, 80000, 269000>> :> 10026851 @@
    <<0, 89000, 0>> :> 9896348 @@
    <<0, 89000, 1000>> :> 9896365 @@
    <<0, 89000, 279000>> :> 9990150 @@
    <<50000, 50000, 0>> :> 0 @@
    <<50000, 50004, 0>> :> 445 @@
    <<50000, 50006, 0>> :> 667 @@
    <<50004, 50000, 0>> :> 445 @@
    <<50004, 50004, 0>> :> 0 @@
    <<50004, 50006, 0>> :> 222 @@
    <<50010, 50000, 0>> :> 1112 @@
    <<50010, 50004, 0>> :> 667 @@
    <<50010, 50006, 0>> :> 445 @@
    <<80000, 0, 0>> :> 8895594 @@
    <<80000, 0, 170000>> :> 11102430 @@
    <<80000, 0, 179000>> :> 11119322 @@
    <<80000, 3000, 0>> :> 8562009 @@
    <<80000, 3000, 179000>> :> 10785738 @@
    <<80000, 80000, 0>> :> 0 @@
    <<80000, 80000, 90000>> :> 1568521 @@
    <<80000, 80000, 100000>> :> 1700008 @@
    <<80000, 80000, 170000>> :> 2215349 @@
    <<80000, 80000, 179000>> :> 2223813 @@
    <<80000, 80000, 180000>> :> 2223899 @@
    <<80000, 89000, 0>> :> 1000754 @@
    <<80000, 89000, 100000>> :> 1136492 @@
    <<80000, 89000, 180000>> :> 1223144

haversineDistanceMeters(origin, tgt) ==
    HaversineTable[<<origin.lat, tgt.lat, Abs(tgt.lng - origin.lng)>>]

----------------------------------------------------------------------------
(* SpatialIndex: buildKdTree and createNearestNeighborSearcher *)

\* Positions of the stations handed to the searcher: three around the
\* antimeridian on and near the equator, three near the north pole.
StationPositions ==
    { [lat |-> 0, lng |-> -179000],
      [lat |-> 0, lng |-> 170000],
      [lat |-> 3000, lng |-> 179000],
      [lat |-> 80000, lng |-> -90000],
      [lat |-> 89000, lng |-> -100000],
      [lat |-> 89000, lng |-> 180000] }

SearchTargets ==
    { [lat |-> 0, lng |-> 179000],
      [lat |-> 80000, lng |-> 0] }

DEFAULT_COVERAGE_RADIUS_METERS == 400

\* An ExistingStation (name and capacity are carried along unread and are
\* left out); the id is the position in the caller's array.
ExistingStationAt(i, p) ==
    [id |-> i, lat |-> p.lat, lng |-> p.lng,
     coverageRadiusMeters |-> DEFAULT_COVERAGE_RADIUS_METERS]

StationArrays ==
    { [i \in 1..Len(ps) |-> ExistingStationAt(i, ps[i])] :
        ps \in SeqsUpTo(StationPositions, MaxStations) }

NullNode == [isNull |-> TRUE]

Coord(p, axis) == IF axis = "lat" THEN p.lat ELSE p.lng

RECURSIVE buildKdTree(_, _)
buildKdTree(sts, depth) ==
    IF Len(sts) = 0 THEN NullNode
    ELSE LET axis == IF depth % 2 = 0 THEN "lat" ELSE "lng"
             sorted == StableSort(sts, [s \in Range(sts) |-> Coord(s, axis)])
             median == Len(sorted) \div 2    \* 0-based index
         IN  [isNull |-> FALSE,
              station |-> sorted[median + 1],
              axis |-> axis,
              left |-> buildKdTree(SubSeq(sorted, 1, median), depth + 1),
              right |-> buildKdTree(SubSeq(sorted, median + 2, Len(sorted)),
                                    depth + 1)]

NearestStationHit(candidate, distanceMeters) ==
    [id |-> candidate.id, lat |-> candidate.lat, lng |-> candidate.lng,
     coverageRadiusMeters |-> candidate.coverageRadiusMeters,
     distanceMeters |-> distanceMeters]

\* tryInsert without its best.sort(...) line
tryInsertUnsorted(bst, tgt, lim, candidate) ==
    LET pushed == Append(bst,
            NearestStationHit(candidate, haversineDistanceMeters(tgt, candidate)))
    IN  IF Len(pushed) > lim THEN Front(pushed) ELSE pushed

\* tryInsert: push, sort by distanceMeters, pop when longer than limit.
tryInsert(bst, tgt, lim, candidate) ==
    LET distanceMeters == haversineDistanceMeters(tgt, candidate)
        nextEntry == NearestStationHit(candidate, distanceMeters)
        pushed == Append(bst, nextEntry)
        sorted == StableSort(pushed,
                     [h \in Range(pushed) |-> h.distanceMeters])
    IN  IF Len(sorted) > lim THEN Front(sorted) ELSE sorted

\* target[axis] - node.station[axis]
Delta(tgt, node) == Coord(tgt, node.axis) - Coord(node.station, node.axis)

Primary(tgt, node) == IF Delta(tgt, node) < 0 THEN node.left ELSE node.right

Secondary(tgt, node) == IF Delta(tgt, node) < 0 THEN node.right ELSE node.left

\* haversineDistanceMeters(target, {...target, [axis]: node.station[axis]})
AxisDistanceMeters(tgt, node) ==
    IF node.axis = "lat"
    THEN haversineDistanceMeters(tgt, [lat |-> node.station.lat, lng |-> tgt.lng])
    ELSE haversineDistanceMeters(tgt, [lat |-> tgt.lat, lng |-> node.station.lng])

\* Infinity: above every distance (the largest is under 20 038 000 m)
Infinity == 2147483647

\* best[best.length - 1]?.distanceMeters ?? Infinity
WorstDistance(bst) ==
    IF bst = <<>> THEN Infinity ELSE Last(bst).distanceMeters

\* the condition without its "best.length < limit ||" disjunct
VisitsSecondaryWhenCloser(bst, tgt, lim, node) ==
    AxisDistanceMeters(tgt, node) < WorstDistance(bst)

\* best.length < limit || axisDistanceMeters < worstDistance
VisitsSecondary(bst, tgt, lim, node) ==
    IF Len(bst) < lim THEN TRUE
    ELSE AxisDistanceMeters(tgt, node) < WorstDistance(bst)

NoTarget == [none |-> TRUE]

NoWeights == [none |-> TRUE]

NoInput == [none |-> TRUE]

NoResult == [none |-> TRUE]

----------------------------------------------------------------------------
(* Components that are not run *)

\* The searcher, the coverage analysis, the potential surface and the
\* suitability scorer at rest.
SearchOff ==
    /\ stations = <<>>
    /\ tree = NullNode
    /\ target = NoTarget
    /\ limit = 0
    /\ best = <<>>
    /\ callStack = <<>>
    /\ searchResult = <<>>
    /\ pc = "off"

CoverageOff ==
    /\ gridCells = <<>>
    /\ existingStations = <<>>
    /\ coverageCells = <<>>
    /\ covPc = "off"

HeatOff ==
    /\ heatGrid = <<>>
    /\ heatStations = <<>>
    /\ heatWeights = NoWeights
    /\ heatPoints = <<>>
    /\ heatPc = "off"

ScoreOff ==
    /\ scoreFactors = <<>>
    /\ scoreInput = NoInput
    /\ scoreResult = NoResult
    /\ bandScore = 0
    /\ bandResult = NoResult
    /\ scorePc = "off"

\* The candidate scorer at rest.
CalcOff ==
    /\ calcCtx = <<>>
    /\ calcNb = <<>>
    /\ calcScore = <<>>
    /\ calcPc = "off"

\* The hex grid builder at rest.
HexOff ==
    /\ hexSeeds = <<>>
    /\ hexRadius = 0
    /\ hexLat = 0
    /\ hexLng = 0
    /\ hexRow = 0
    /\ hexCells = <<>>
    /\ hexPc = "off"

\* The static layers at rest.
BaseGridOff ==
    /\ baseGridPoints = <<>>
    /\ baseGrid = <<>>
    /\ basePc = "off"

\* The station mapping at rest.
MapStationsOff ==
    /\ rawStations = <<>>
    /\ mappedStations = <<>>
    /\ mapPc = "off"

\* The planning map at rest.
PlanningOff ==
    /\ planningStations = <<>>
    /\ storedStations = <<>>
    /\ urlStations = <<>>
    /\ pendingLookup = <<>>
    /\ lookupsInFlight = {}
    /\ clock = 0
    /\ hasRandomUUID = FALSE
    /\ idsCreated = 0
    /\ returnedId = <<>>
    /\ lastClick = <<>>
    /\ clicks = 0
    /\ baseCount = 0
    /\ planPc = "off"

\* The single-point planning view at rest.
ViewOff ==
    /\ viewPoint = <<>>
    /\ context = <<>>
    /\ nearby = <<>>
    /\ loading = FALSE
    /\ error = <<>>
    /\ handleClickCalls = <<>>
    /\ viewPc = "off"

\* The debounce effect at rest.
DebounceOff ==
    /\ pendingTimers = {}
    /\ effectRuns = 0
    /\ effectPending = FALSE
    /\ changes = 0
    /\ debouncePc = "off"

\* The multi-proposal planning view at rest.
ProposalsOff ==
    /\ proposals = <<>>
    /\ selectedId = <<>>
    /\ compareIds = <<>>
    /\ bestId = <<>>
    /\ saveError = <<>>
    /\ saveOk = <<>>
    /\ proposalCalls = <<>>
    /\ dateNow = 0
    /\ savedProposal = <<>>
    /\ proposalsPc = "off"

SearchInit ==
    /\ stations \in StationArrays
    /\ tree = NullNode
    /\ target = NoTarget
    /\ limit = 0
    /\ best = <<>>
    /\ callStack = <<>>
    /\ searchResult = <<>>
    /\ pc = "new"
    \* the other components are not run
    /\ CoverageOff
    /\ HeatOff
    /\ ScoreOff
    /\ CalcOff
    /\ HexOff
    /\ BaseGridOff
    /\ MapStationsOff
    /\ PlanningOff
    /\ ViewOff
    /\ DebounceOff
    /\ ProposalsOff

\* stations.sort(...) on the argument itself: the caller's array comes back
\* in the order of the first sort, by lat
ArgumentAfterBuildKdTreeInPlace(sts) ==
    StableSort(sts, [s \in Range(sts) |-> Coord(s, "lat")])

\* The argument of buildKdTree after the call: [...stations] copies the
\* array before the sort and slice() copies the halves, so the array handed
\* in keeps its order and its elements.
ArgumentAfterBuildKdTree(sts) == sts

\* const tree = buildKdTree(stations)
CreateNearestNeighborSearcher ==
    /\ pc = "new"
    /\ tree' = buildKdTree(stations, 0)
    /\ stations' = ArgumentAfterBuildKdTree(stations)
    /\ pc' = "ready"
    /\ UNCHANGED <<target, limit, best, callStack, searchResult>>
    /\ UNCHANGED nonSearchVars

\* search that seeds best with a placeholder hit instead of []
SearchSeeded(tgt, lim) ==
    /\ pc \in {"ready", "done"}
    /\ target' = tgt
    /\ limit' = lim
    /\ best' = <<NearestStationHit(ExistingStationAt(0, tgt), Infinity)>>
    /\ callStack' = <<[node |-> tree, at |-> "enter"]>>
    /\ searchResult' = <<>>
    /\ pc' = "searching"
    /\ UNCHANGED <<stations, tree>>
    /\ UNCHANGED nonSearchVars

\* search(target, limit): const best = []; traverse(tree) is called
Search(tgt, lim) ==
    /\ pc \in {"ready", "done"}
    /\ target' = tgt
    /\ limit' = lim
    /\ best' = <<>>
    /\ callStack' = <<[node |-> tree, at |-> "enter"]>>
    /\ searchResult' = <<>>
    /\ pc' = "searching"
    /\ UNCHANGED <<stations, tree>>
    /\ UNCHANGED nonSearchVars

\* traverse(null): if (!node) return
TraverseNull ==
    /\ pc = "searching"
    /\ callStack # <<>>
    /\ Last(callStack).at = "enter"
    /\ Last(callStack).node.isNull
    /\ callStack' = Front(callStack)
    /\ UNCHANGED <<stations, tree, target, limit, best, searchResult, pc>>
    /\ UNCHANGED nonSearchVars

\* traverse(node): tryInsert(node.station), then traverse(primary)
TraverseVisit ==
    /\ pc = "searching"
    /\ callStack # <<>>
    /\ Last(callStack).at = "enter"
    /\ ~Last(callStack).node.isNull
    /\ LET node == Last(callStack).node
       IN  /\ best' = tryInsert(best, target, limit, node.station)
           /\ callStack' = Front(callStack)
                  \o <<[node |-> node, at |-> "afterPrimary"],
                       [node |-> Primary(target, node), at |-> "enter"]>>
    /\ UNCHANGED <<stations, tree, target, limit, searchResult, pc>>
    /\ UNCHANGED nonSearchVars

\* back from traverse(primary), the condition holds: traverse(secondary)
TraverseSecondary ==
    /\ pc = "searching"
    /\ callStack # <<>>
    /\ Last(callStack).at = "afterPrimary"
    /\ LET node == Last(callStack).node
       IN  /\ VisitsSecondary(best, target, limit, node)
           /\ callStack' = Append(Front(callStack),
                  [node |-> Secondary(target, node), at |-> "enter"])
    /\ UNCHANGED <<stations, tree, target, limit, best, searchResult, pc>>
    /\ UNCHANGED nonSearchVars

\* back from traverse(primary), the condition fails: the far side is skipped
PruneSecondary ==
    /\ pc = "searching"
    /\ callStack # <<>>
    /\ Last(callStack).at = "afterPrimary"
    /\ ~VisitsSecondary(best, target, limit, Last(callStack).node)
    /\ callStack' = Front(callStack)
    /\ UNCHANGED <<stations, tree, target, limit, best, searchResult, pc>>
    /\ UNCHANGED nonSearchVars

\* traverse(tree) has returned: return best
SearchReturn ==
    /\ pc = "searching"
    /\ callStack = <<>>
    /\ searchResult' = best
    /\ pc' = "done"
    /\ UNCHANGED <<stations, tree, target, limit, best, callStack>>
    /\ UNCHANGED nonSearchVars

StartSearch == \E tgt \in SearchTargets, lim \in 0..MaxLimit : Search(tgt, lim)

SearchNext ==
    \/ CreateNearestNeighborSearcher
    \/ StartSearch
    \/ TraverseNull
    \/ TraverseVisit
    \/ TraverseSecondary
    \/ PruneSecondary
    \/ SearchReturn

----------------------------------------------------------------------------
(* CoverageAnalyzer: markCoverageGaps *)

\* Cell centres and station positions in Mainz, on one meridian; a station
\* four millidegrees of latitude from a centre is 445 m away.
CellCenters == { <<50000, 8270>>, <<50004, 8270>>, <<50010, 8270>> }

CoveragePositions ==
    { [lat |-> 50000, lng |-> 8270],
      [lat |-> 50004, lng |-> 8270],
      [lat |-> 50006, lng |-> 8270] }

\* coverageRadiusMeters of capacities 0, 9 and 20 (mapExistingStations)
CoverageRadii == {400, 445, 500}

CoverageStations ==
    { [id |-> 0, lat |-> p.lat, lng |-> p.lng, coverageRadiusMeters |-> r] :
        p \in CoveragePositions, r \in CoverageRadii }

\* A cell is {id, polygon, center: [lat, lng]}; the polygon is carried along
\* unread and is left out.  The id is the position in the caller's array.
CellArrays ==
    { [i \in 1..Len(cs) |-> [id |-> i, center |-> cs[i]]] :
        cs \in SeqsUpTo(CellCenters, MaxCells) }

CoverageStationArrays ==
    { [i \in 1..Len(ss) |-> [ss[i] EXCEPT !.id = i]] :
        ss \in SeqsUpTo(CoverageStations, MaxCoverageStations) }

\* the callback of stations.some with < in place of <=
CoversStrictly(center, station) ==
    haversineDistanceMeters(center, station) < station.coverageRadiusMeters

\* the callback of stations.some:
\* haversineDistanceMeters(center, station) <= station.coverageRadiusMeters
Covers(center, station) ==
    haversineDistanceMeters(center, station) <= station.coverageRadiusMeters

\* stations.every in place of stations.some
RECURSIVE EveryStationCovers(_, _)
EveryStationCovers(center, sts) ==
    IF sts = <<>> THEN TRUE
    ELSE IF ~Covers(center, Head(sts)) THEN FALSE
    ELSE EveryStationCovers(center, Tail(sts))

\* stations.some(...): from the first station on, true at the first hit
RECURSIVE SomeStationCovers(_, _)
SomeStationCovers(center, sts) ==
    IF sts = <<>> THEN FALSE
    ELSE IF Covers(center, Head(sts)) THEN TRUE
    ELSE SomeStationCovers(center, Tail(sts))

markCoverageGaps(cells, sts) ==
    [i \in 1..Len(cells) |->
        LET cell == cells[i]
            center == [lat |-> cell.center[1], lng |-> cell.center[2]]
        IN  [id |-> cell.id, center |-> cell.center,
             covered |-> SomeStationCovers(center, sts)]]

CoverageInit ==
    /\ gridCells \in CellArrays
    /\ existingStations \in CoverageStationArrays
    /\ coverageCells = <<>>
    /\ covPc = "idle"
    \* the other components are not run
    /\ SearchOff
    /\ HeatOff
    /\ ScoreOff
    /\ CalcOff
    /\ HexOff
    /\ BaseGridOff
    /\ MapStationsOff
    /\ PlanningOff
    /\ ViewOff
    /\ DebounceOff
    /\ ProposalsOff

\* const cells = markCoverageGaps(grid, existingStations)
MarkCoverageGaps ==
    /\ covPc \in {"idle", "marked"}
    /\ coverageCells' = markCoverageGaps(gridCells, existingStations)
    /\ covPc' = "marked"
    /\ UNCHANGED <<gridCells, existingStations>>
    /\ UNCHANGED nonCovVars

InsertAt(s, i, x) == SubSeq(s, 1, i - 1) \o <<x>> \o SubSeq(s, i, Len(s))

\* The station snapshot is replaced by one with one more station (at any
\* place of the array) and the same cells are marked again.
MarkWithOneMoreStation(station, i) ==
    /\ covPc = "marked"
    /\ Len(existingStations) < MaxCoverageStations
    /\ existingStations' = InsertAt(existingStations, i,
            [station EXCEPT !.id = Len(existingStations) + 1])
    /\ coverageCells' = markCoverageGaps(gridCells, existingStations')
    /\ UNCHANGED <<gridCells, covPc>>
    /\ UNCHANGED nonCovVars

AddStationAndMark ==
    \E station \in CoverageStations, i \in 1..(Len(existingStations) + 1) :
        MarkWithOneMoreStation(station, i)

CoverageNext ==
    \/ MarkCoverageGaps
    \/ AddStationAndMark

----------------------------------------------------------------------------
(* The index and the coverage marking side by side, as the planning map runs
   them in one effect *)

\* A searcher over up to two stations and a coverage marking of one cell
\* against one station, each on its own arrays.
IndexAndCoverageInit ==
    /\ stations \in {sts \in StationArrays : Len(sts) <= 2}
    /\ tree = NullNode
    /\ target = NoTarget
    /\ limit = 0
    /\ best = <<>>
    /\ callStack = <<>>
    /\ searchResult = <<>>
    /\ pc = "new"
    /\ gridCells \in {cells \in CellArrays : Len(cells) = 1}
    /\ existingStations \in {sts \in CoverageStationArrays : Len(sts) = 1}
    /\ coverageCells = <<>>
    /\ covPc = "idle"
    \* the other components are not run
    /\ HeatOff
    /\ ScoreOff
    /\ CalcOff
    /\ HexOff
    /\ BaseGridOff
    /\ MapStationsOff
    /\ PlanningOff
    /\ ViewOff
    /\ DebounceOff
    /\ ProposalsOff

IndexAndCoverageNext ==
    \/ SearchNext
    \/ MarkCoverageGaps

----------------------------------------------------------------------------
(* PotentialSurfaceModel: computeHeatPoints *)

\* One in the fixed-point unit of weights, layer scores and exp values.
HeatScale == 10000

\* n / d rounded to the nearest integer, halves upwards (d even, d > 0)
RoundDiv(n, d) == (n + d \div 2) \div d

Max(a, b) == IF a > b THEN a ELSE b

\* Math.exp(-((distance * distance) / (2 * sigma * sigma))) in 1/HeatScale
\* on the distances (metres) and sigmas the model uses.
ExpTable ==
    <<0, 180>> :> 10000 @@
    <<222, 180>> :> 4674 @@
    <<445, 180>> :> 471 @@
    <<667, 180>> :> 10 @@
    <<1112, 180>> :> 0 @@
    <<0, 650>> :> 10000 @@
    <<222, 650>> :> 9433 @@
    <<445, 650>> :> 7911 @@
    <<667, 650>> :> 5907 @@
    <<1112, 650>> :> 2315

GaussianExp(distance, sigma) == ExpTable[<<distance, sigma>>]

\* haversineDistanceMeters(lat1, lon1, lat2, lon2) of the heat model
heatHaversineDistanceMeters(lat1, lon1, lat2, lon2) ==
    HaversineTable[<<lat1, lat2, Abs(lon2 - lon1)>>]

\* DEFAULT_WEIGHTS = {population: 1, poi: 0.8, transit: 0.9, coverage: 0.75}
DEFAULT_WEIGHTS ==
    [population |-> 10000, poi |-> 8000, transit |-> 9000, coverage |-> 7500]

\* The corners of [0, 1.5]^4 and the default weights.
WeightChoices ==
    [population : {0, 15000}, poi : {0, 15000}, transit : {0, 15000},
     coverage : {0, 15000}] \cup {DEFAULT_WEIGHTS}

\* Normalised layer scores of a grid cell (each in [0, 1]).
LayerScoreChoices ==
    { [population |-> 0, poi |-> 0, transit |-> 0],
      [population |-> 10000, poi |-> 5000, transit |-> 0],
      [population |-> 10000, poi |-> 10000, transit |-> 10000] }

SamplePoints == { [lat |-> 50000, lng |-> 8270], [lat |-> 50010, lng |-> 8270] }

\* A PotentialGridCell; the id is the position in the grid.
GridArrays ==
    { [i \in 1..Len(cs) |->
          [id |-> i, lat |-> cs[i][1].lat, lng |-> cs[i][1].lng,
           layerScores |-> cs[i][2]]] :
        cs \in SeqsUpTo(SamplePoints \X LayerScoreChoices, MaxGridCells) }

\* A PlanningStation (label, createdAt, analysis, manualSlots are unread and
\* left out); the id is the position in the array.
PlanningStationArrays ==
    { [i \in 1..Len(ps) |-> [id |-> i, lat |-> ps[i].lat, lng |-> ps[i].lng]] :
        ps \in SeqsUpTo(CoveragePositions, MaxHeatStations) }

\* staticLayerScore that takes the plain mean of the three layers
staticLayerScoreUnweighted(layers, weights) ==
    RoundDiv(2 * (layers.population + layers.poi + layers.transit), 6)

staticLayerScore(layers, weights) ==
    LET totalWeight == weights.population + weights.poi + weights.transit
    IN  IF totalWeight = 0 THEN 0
        ELSE RoundDiv(2 * (layers.population * weights.population
                           + layers.poi * weights.poi
                           + layers.transit * weights.transit),
                      2 * totalWeight)

\* stations.reduce((shortest, station) => Math.min(shortest, distance), Infinity)
RECURSIVE findNearestStationDistance(_, _)
findNearestStationDistance(cell, sts) ==
    IF Len(sts) = 0 THEN Infinity
    ELSE Min(findNearestStationDistance(cell, Front(sts)),
             heatHaversineDistanceMeters(cell.lat, cell.lng,
                                         Last(sts).lat, Last(sts).lng))

\* coverageEffect without the boost of a cell that no station covers
coverageEffectWithoutBoost(cell, sts, coverageWeight) ==
    IF coverageWeight = 0 THEN 0
    ELSE LET distance == findNearestStationDistance(cell, sts)
         IN  IF distance = Infinity THEN 0
             ELSE LET closeCoveragePenalty == GaussianExp(distance, 180)
                      gapBoost == HeatScale - GaussianExp(distance, 650)
                  IN  RoundDiv(coverageWeight
                                   * (10 * gapBoost - 6 * closeCoveragePenalty),
                               10 * HeatScale)

coverageEffect(cell, sts, coverageWeight) ==
    IF coverageWeight = 0 THEN 0
    ELSE LET distance == findNearestStationDistance(cell, sts)
         IN  IF distance = Infinity THEN coverageWeight
             ELSE LET closeCoveragePenalty == GaussianExp(distance, 180)
                      gapBoost == HeatScale - GaussianExp(distance, 650)
                  IN  \* coverageWeight * (gapBoost - closeCoveragePenalty * 0.6)
                      RoundDiv(coverageWeight
                                   * (10 * gapBoost - 6 * closeCoveragePenalty),
                               10 * HeatScale)

\* Number(adjusted.toFixed(3)): to the nearest thousandth
ToFixed3(x) == RoundDiv(x, HeatScale \div 1000)

\* the callback of grid.map without the Math.min(1.25, ...)
HeatPointUncapped(cell, sts, weights) ==
    LET baseScore == staticLayerScore(cell.layerScores, weights)
        adjusted == Max(0, baseScore + coverageEffect(cell, sts, weights.coverage))
    IN  <<cell.lat, cell.lng, ToFixed3(adjusted)>>

\* the callback of grid.map: [cell.lat, cell.lng, intensity], the intensity
\* in thousandths
HeatPoint(cell, sts, weights) ==
    LET baseScore == staticLayerScore(cell.layerScores, weights)
        adjusted == Max(0, Min(12500,
                        baseScore + coverageEffect(cell, sts, weights.coverage)))
    IN  <<cell.lat, cell.lng, ToFixed3(adjusted)>>

computeHeatPoints(grid, sts, weights) ==
    [i \in 1..Len(grid) |-> HeatPoint(grid[i], sts, weights)]

HeatInit ==
    /\ heatGrid \in GridArrays
    /\ heatStations \in PlanningStationArrays
    /\ heatWeights \in WeightChoices
    /\ heatPoints = <<>>
    /\ heatPc = "idle"
    \* the other components are not run
    /\ SearchOff
    /\ CoverageOff
    /\ ScoreOff
    /\ CalcOff
    /\ HexOff
    /\ BaseGridOff
    /\ MapStationsOff
    /\ PlanningOff
    /\ ViewOff
    /\ DebounceOff
    /\ ProposalsOff

\* setHeatPoints(computeHeatPoints(baseGrid, stations, weights))
ComputeHeatPoints ==
    /\ heatPc \in {"idle", "computed"}
    /\ heatPoints' = computeHeatPoints(heatGrid, heatStations, heatWeights)
    /\ heatPc' = "computed"
    /\ UNCHANGED <<heatGrid, heatStations, heatWeights>>
    /\ UNCHANGED nonHeatVars

HeatNext ==
    \/ ComputeHeatPoints

\* The planning map without planned stations: the heat points of the empty
\* station list, as the initial state of heatPoints computes them.
HeatOfNoStationsInit ==
    /\ heatGrid \in GridArrays
    /\ heatStations = <<>>
    /\ heatWeights \in WeightChoices
    /\ heatPoints = computeHeatPoints(heatGrid, <<>>, heatWeights)
    /\ heatPc = "computed"
    \* the other components are not run
    /\ SearchOff
    /\ CoverageOff
    /\ ScoreOff
    /\ CalcOff
    /\ HexOff
    /\ BaseGridOff
    /\ MapStationsOff
    /\ PlanningOff
    /\ ViewOff
    /\ DebounceOff
    /\ ProposalsOff

\* A station is added to the list ([...stations, next]) and the heat points
\* are computed again for the same grid and weights.
AddHeatStation ==
    /\ heatPc = "computed"
    /\ Len(heatStations) < MaxHeatStations
    /\ \E at \in CoveragePositions :
        heatStations' = Append(heatStations,
            [id |-> Len(heatStations) + 1, lat |-> at.lat, lng |-> at.lng])
    /\ heatPoints' = computeHeatPoints(heatGrid, heatStations', heatWeights)
    /\ UNCHANGED <<heatGrid, heatWeights, heatPc>>
    /\ UNCHANGED nonHeatVars

AddedStationsNext ==
    \/ AddHeatStation

----------------------------------------------------------------------------
(* SuitabilityScorer: computeScore and mapScoreToBand *)

\* Ratios (coverageRatio, congestionLevel) and factor weights are carried in
\* hundredths; a normalised value is carried in 1/NormScale, a common
\* multiple of 100, 15000, 40 and 1200, so that every quotient the
\* normalisers take of the model's inputs is exact.
NormScale == 30000

MAX_POPULATION_DENSITY == 15000
MAX_POI_COUNT == 40
MAX_TRANSIT_DISTANCE == 1200

\* clamp01 that hands its argument back
clamp01Unclamped(value) == value

\* clamp01 = value => Math.min(1, Math.max(0, value))
clamp01(value) == Min(NormScale, Max(0, value))

\* scoringBands, in the order of the array
scoringBands ==
    << [id |-> "excellent", minScore |-> 75],
       [id |-> "caution", minScore |-> 50],
       [id |-> "unsuitable", minScore |-> 0] >>

\* scoringFactors, in the order of the array: key and weight (hundredths)
scoringFactors ==
    << [key |-> "coverageRatio", weight |-> 25],
       [key |-> "populationDensity", weight |-> 20],
       [key |-> "nearbyUtilization", weight |-> 20],
       [key |-> "congestionLevel", weight |-> 10],
       [key |-> "poiCount", weight |-> 15],
       [key |-> "transitProximity", weight |-> 10] >>

\* factor.extract(input)
Extract(key, input) == input[key]

\* factor.normalize that hands the congestion level on without inverting it
NormalizeCongestionDirect(key, value) ==
    CASE key = "coverageRatio" -> clamp01((value * NormScale) \div 100)
      [] key = "populationDensity" ->
             clamp01((value * NormScale) \div MAX_POPULATION_DENSITY)
      [] key = "nearbyUtilization" -> clamp01((value * NormScale) \div 100)
      [] key = "congestionLevel" -> clamp01((value * NormScale) \div 100)
      [] key = "poiCount" -> clamp01((value * NormScale) \div MAX_POI_COUNT)
      [] key = "transitProximity" ->
             clamp01(NormScale - (value * NormScale) \div MAX_TRANSIT_DISTANCE)

\* factor.normalize(rawValue, input), in 1/NormScale
Normalize(key, value) ==
    CASE key = "coverageRatio" -> clamp01((value * NormScale) \div 100)
      [] key = "populationDensity" ->
             clamp01((value * NormScale) \div MAX_POPULATION_DENSITY)
      [] key = "nearbyUtilization" -> clamp01((value * NormScale) \div 100)
      [] key = "congestionLevel" ->
             NormScale - clamp01((value * NormScale) \div 100)
      [] key = "poiCount" -> clamp01((value * NormScale) \div MAX_POI_COUNT)
      [] key = "transitProximity" ->
             clamp01(NormScale - (value * NormScale) \div MAX_TRANSIT_DISTANCE)

\* Values of the fields of a RawMetricInput: below, inside and above the
\* documented ranges.
RawMetricInputs ==
    [coverageRatio : {-50, 50, 75, 90, 150},
     populationDensity : {-1000, 7500, 11250, 12000, 20000},
     nearbyUtilization : {-10, 50, 75, 80, 120},
     congestionLevel : {-20, 10, 25, 50, 200},
     poiCount : {-5, 20, 30, 100},
     transitProximity : {-100, 200, 300, 600, 5000}]

\* scoringBands.find((band) => score > band.minScore), from the given index
RECURSIVE FindBandAbove(_, _)
FindBandAbove(score, i) ==
    IF i > Len(scoringBands) THEN scoringBands[3]
    ELSE IF score > scoringBands[i].minScore THEN scoringBands[i]
    ELSE FindBandAbove(score, i + 1)

\* scoringBands.find((band) => score >= band.minScore), from the given index;
\* scoringBands[2] (0-based) when none is found
RECURSIVE FindBand(_, _)
FindBand(score, i) ==
    IF i > Len(scoringBands) THEN scoringBands[3]
    ELSE IF score >= scoringBands[i].minScore THEN scoringBands[i]
    ELSE FindBand(score, i + 1)

mapScoreToBandStrict(score) == FindBandAbove(score, 1)

mapScoreToBand(score) == FindBand(score, 1)

\* scoringFactors.reduce((sum, factor) => sum + factor.weight, 0)
RECURSIVE SumWeights(_)
SumWeights(factors) ==
    IF factors = <<>> THEN 0
    ELSE SumWeights(Front(factors)) + Last(factors).weight

\* breakdown.reduce((sum, entry) => sum + entry.contribution, 0)
RECURSIVE SumContributions(_)
SumContributions(entries) ==
    IF entries = <<>> THEN 0
    ELSE SumContributions(Front(entries)) + Last(entries).contribution

\* The breakdown of computeScore, over the scoringFactors array as it is at
\* the call: label, description and formattedRaw are display strings and
\* left out; contribution is in 1/(100 * NormScale).
Breakdown(input) ==
    [i \in 1..Len(scoreFactors) |->
        LET factor == scoreFactors[i]
            rawValue == Extract(factor.key, input)
            normalizedValue == Normalize(factor.key, rawValue)
        IN  [key |-> factor.key,
             weight |-> factor.weight,
             normalizedValue |-> normalizedValue,
             contribution |-> normalizedValue * factor.weight,
             rawValue |-> rawValue]]

\* Math.round of the quotient n / d (d > 0).  The program takes the quotient
\* in doubles: where the exact quotient lies on a half, the double may fall on
\* either side of it, and both roundings are results the program can give.
MathRound(n, d) ==
    IF (2 * n) % d = 0 /\ ((2 * n) \div d) % 2 # 0
    THEN {n \div d, n \div d + 1}
    ELSE {(2 * n + d) \div (2 * d)}

\* NaN.  Every comparison with NaN is false; the only comparisons the
\* program makes with a score are score >= band.minScore, and the model
\* carries NaN as an integer below every minScore.
NaN == -2147483647

\* The results computeScore can return for the input.  With weights that
\* are all 0 both weightedSum and totalWeight are 0, and 0 / 0 is NaN.
computeScore(input) ==
    LET totalWeight == SumWeights(scoreFactors)
        breakdown == Breakdown(input)
        weightedSum == SumContributions(breakdown)
    IN  \* Math.round((weightedSum / totalWeight) * 100)
        { [score |-> score,
           band |-> mapScoreToBand(score),
           breakdown |-> breakdown,
           totalWeight |-> totalWeight] :
            score \in IF totalWeight = 0 THEN {NaN}
                      ELSE MathRound(100 * weightedSum,
                                     totalWeight * NormScale) }

\* The scoringFactors array as exported, and with every weight set to 0 by
\* a module that imports it.
FactorTables ==
    {scoringFactors,
     [i \in 1..Len(scoringFactors) |->
         [key |-> scoringFactors[i].key, weight |-> 0]]}

\* computeScore called with either table in place
ScoreFactorsInit ==
    /\ scoreFactors \in FactorTables
    /\ scoreInput \in RawMetricInputs \cup {NoInput}
    /\ scoreResult = NoResult
    /\ bandScore = 0
    /\ bandResult = NoResult
    /\ scorePc = "idle"
    \* the other components are not run
    /\ SearchOff
    /\ CoverageOff
    /\ HeatOff
    /\ CalcOff
    /\ HexOff
    /\ BaseGridOff
    /\ MapStationsOff
    /\ PlanningOff
    /\ ViewOff
    /\ DebounceOff
    /\ ProposalsOff

ScoreInit ==
    /\ scoreFactors = scoringFactors
    /\ scoreInput \in RawMetricInputs \cup {NoInput}
    /\ scoreResult = NoResult
    /\ bandScore = 0
    /\ bandResult = NoResult
    /\ scorePc = "idle"
    \* the other components are not run
    /\ SearchOff
    /\ CoverageOff
    /\ HeatOff
    /\ CalcOff
    /\ HexOff
    /\ BaseGridOff
    /\ MapStationsOff
    /\ PlanningOff
    /\ ViewOff
    /\ DebounceOff
    /\ ProposalsOff

\* const evaluation = computeScore(metrics)
ComputeScore ==
    /\ scorePc = "idle"
    /\ scoreInput # NoInput
    /\ scoreResult' \in computeScore(scoreInput)
    /\ scorePc' = "scored"
    /\ UNCHANGED <<scoreFactors, scoreInput, bandScore, bandResult>>
    /\ UNCHANGED nonScoreVars

\* mapScoreToBand(score), called on its own with a score of 0..100
MapScoreToBand ==
    /\ scorePc = "idle"
    /\ scoreInput = NoInput
    /\ \E score \in 0..100 :
           /\ bandScore' = score
           /\ bandResult' = mapScoreToBand(score)
    /\ scorePc' = "mapped"
    /\ UNCHANGED <<scoreFactors, scoreInput, scoreResult>>
    /\ UNCHANGED nonScoreVars

ScoreNext ==
    \/ ComputeScore
    \/ MapScoreToBand

----------------------------------------------------------------------------
(* Candidate scorer of the planning view: calculateScore *)

\* A field that may be null or undefined is carried as a sequence: <<>> for
\* a missing value, <<v>> for the value v.  The same holds for the ctx and nb
\* arguments and for the returned ScoreBreakdown | null.  Counts are whole
\* numbers and the distance whole metres; weightedDemand and rawTotal, sums
\* of multiples of 0.5, are carried in halves.

\* field ?? 0
OrZero(field) == IF field = <<>> THEN 0 ELSE field[1]

\* PlanningContextResponse values handed to calculateScore
ContextResponses ==
    [schools : {<<>>, <<0>>, <<3>>},
     universities : {<<>>, <<2>>},
     shops : {<<0>>, <<1>>, <<24>>},
     bus_stops : {<<>>, <<4>>},
     railway_stations : {<<0>>, <<1>>, <<7960>>}]

\* NearbyStationsResponse values handed to calculateScore
NearbyResponses ==
    [nearest_station_distance_m : {<<>>, <<0>>, <<149>>, <<150>>, <<5000>>},
     stations_in_radius : {<<>>, <<0>>, <<2>>, <<15>>}]

\* Math.round(n / d) for d > 0: the quotients calculateScore rounds are
\* exact in doubles where they lie on a half (x.5 for distance / 100) or
\* round as the exact value does (rawTotal / (rawTotal + 60) * 100, compared
\* for every rawTotal in halves up to 20000).
RoundHalfUp(n, d) == (2 * n + d) \div (2 * d)

\* missingFields, in the order of the pushes
MissingFields(ctx, nb) ==
    (IF ctx.schools = <<>> THEN <<"context.schools">> ELSE <<>>)
    \o (IF ctx.universities = <<>> THEN <<"context.universities">> ELSE <<>>)
    \o (IF ctx.shops = <<>> THEN <<"context.shops">> ELSE <<>>)
    \o (IF ctx.bus_stops = <<>> THEN <<"context.bus_stops">> ELSE <<>>)
    \o (IF ctx.railway_stations = <<>>
        THEN <<"context.railway_stations">> ELSE <<>>)
    \o (IF nb.nearest_station_distance_m = <<>>
        THEN <<"nearby.nearest_station_distance_m">> ELSE <<>>)
    \o (IF nb.stations_in_radius = <<>>
        THEN <<"nearby.stations_in_radius">> ELSE <<>>)

\* normalized >= 90 ? "Sehr gut" : normalized >= 70 ? "Gut" : ...
ScoreLabel(normalized) ==
    IF normalized >= 90 THEN "Sehr gut"
    ELSE IF normalized >= 70 THEN "Gut"
    ELSE IF normalized >= 50 THEN "Eher okay"
    ELSE "Eher schlecht"

\* Math.round((rawTotal / (rawTotal + 60)) * 100) alone, for every rawTotal
NormalizedTotalUnguarded(rawTotalHalves) ==
    RoundHalfUp(100 * rawTotalHalves, rawTotalHalves + 120)

\* Number.isFinite(rawTotal) && rawTotal > 0 ? Math.max(0, Math.min(100,
\* Math.round((rawTotal / (rawTotal + 60)) * 100))) : 0
\* with rawTotal in halves: rawTotal / (rawTotal + 60) = raw2 / (raw2 + 120);
\* every rawTotal of the model is finite.
NormalizedTotal(rawTotalHalves) ==
    IF rawTotalHalves > 0
    THEN Max(0, Min(100, RoundHalfUp(100 * rawTotalHalves,
                                     rawTotalHalves + 120)))
    ELSE 0

\* calculateScore(ctx, nb): the body after the null check
ScoreBreakdownOf(ctx, nb) ==
    LET schools == OrZero(ctx.schools)
        universities == OrZero(ctx.universities)
        shops == OrZero(ctx.shops)
        busStops == OrZero(ctx.bus_stops)
        rail == OrZero(ctx.railway_stations)
        \* schools * 2 + universities * 3 + shops * 0.5 + busStops * 0.5
        \* + rail * 1.5, in halves
        weightedDemandHalves ==
            schools * 4 + universities * 6 + shops + busStops + rail * 3
        distanceMeters == OrZero(nb.nearest_station_distance_m)
        distanceBonus == Min(20, RoundHalfUp(distanceMeters, 100))
        stationsInRadius == OrZero(nb.stations_in_radius)
        coveragePenalty == Min(30, stationsInRadius * 3)
        rawTotalHalves ==
            weightedDemandHalves + 2 * distanceBonus - 2 * coveragePenalty
        normalized == NormalizedTotal(rawTotalHalves)
    IN  [normalizedTotal |-> normalized,
         rawTotalHalves |-> rawTotalHalves,
         weightedDemandHalves |-> weightedDemandHalves,
         distanceBonus |-> distanceBonus,
         coveragePenalty |-> coveragePenalty,
         label |-> ScoreLabel(normalized),
         missingFields |-> MissingFields(ctx, nb)]

\* calculateScore(ctx, nb)
calculateScore(ctx, nb) ==
    IF ctx = <<>> \/ nb = <<>> THEN <<>>
    ELSE << ScoreBreakdownOf(ctx[1], nb[1]) >>

CalcInit ==
    /\ calcCtx = <<>>
    /\ calcNb = <<>>
    /\ calcScore = <<>>
    /\ calcPc = "idle"
    \* the other components are not run
    /\ SearchOff
    /\ CoverageOff
    /\ HeatOff
    /\ ScoreOff
    /\ HexOff
    /\ BaseGridOff
    /\ MapStationsOff
    /\ PlanningOff
    /\ ViewOff
    /\ DebounceOff
    /\ ProposalsOff

\* const score = calculateScore(context, nearby), on a render of the view
\* with the context and nearby values of that render
CalculateScore ==
    /\ calcPc \in {"idle", "done"}
    /\ \E ctx \in {<<>>} \cup {<<c>> : c \in ContextResponses},
          nb \in {<<>>} \cup {<<n>> : n \in NearbyResponses} :
           /\ calcCtx' = ctx
           /\ calcNb' = nb
           /\ calcScore' = calculateScore(ctx, nb)
    /\ calcPc' = "done"
    /\ UNCHANGED nonCalcVars

CalcNext ==
    \/ CalculateScore

----------------------------------------------------------------------------
(* HexGridBuilder: computeBounds, expandBounds and buildHexGrid *)

\* Coordinates of the seed points and of the cell centres are carried in
\* microdegrees (lat 50.009819 is 50009819), the cell radius in metres.

\* Values of haversineDistanceMeters between the seed points and the cell
\* centres buildHexGrid generates for them, rounded to the nearest metre.
\* Key: <<seed.lat, center.lat, |center.lng - seed.lng|>> in microdegrees.
\* No value lies within 2 m of the cell radius it is compared with.
HexHaversineTable ==
    <<50000000, 49991017, 3494>> :> 1030 @@
    <<50000000, 49991017, 3495>> :> 1030 @@
    <<50000000, 49991017, 6987>> :> 1117 @@
    <<50000000, 49991017, 13975>> :> 1413 @@
    <<50000000, 49991017, 13977>> :> 1413 @@
    <<50000000, 49991017, 17468>> :> 1599 @@
    <<50000000, 49991017, 17469>> :> 1599 @@
    <<50000000, 49998796, 3493>> :> 283 @@
    <<50000000, 49998796, 3494>> :> 283 @@
    <<50000000, 49998796, 6987>> :> 517 @@
    <<50000000, 49998796, 6989>> :> 517 @@
    <<50000000, 49998796, 13975>> :> 1008 @@
    <<50000000, 49998796, 24456>> :> 1753 @@
    <<50000000, 49998796, 24457>> :> 1753 @@
    <<50000000, 50006575, 3494>> :> 773 @@
    <<50000000, 50006575, 3495>> :> 773 @@
    <<50000000, 50006575, 6987>> :> 885 @@
    <<50000000, 50006575, 13975>> :> 1238 @@
    <<50000000, 50006575, 13977>> :> 1238 @@
    <<50000000, 50006575, 17468>> :> 1447 @@
    <<50000000, 50006575, 17469>> :> 1447 @@
    <<50000000, 50014354, 3493>> :> 1615 @@
    <<50000000, 50014354, 3494>> :> 1616 @@
    <<50000000, 50014354, 6987>> :> 1672 @@
    <<50000000, 50014354, 6989>> :> 1672 @@
    <<50000000, 50014354, 13975>> :> 1883 @@
    <<50000000, 50014354, 24456>> :> 2367 @@
    <<50000000, 50014354, 24457>> :> 2367 @@
    <<50000000, 50022133, 3495>> :> 2474 @@
    <<50000000, 50022133, 6987>> :> 2511 @@
    <<50000000, 50022133, 13977>> :> 2656 @@
    <<50000000, 50022133, 17469>> :> 2760 @@
    <<50009819, 49991017, 5240>> :> 2124 @@
    <<50009819, 49991017, 5242>> :> 2124 @@
    <<50009819, 49991017, 15722>> :> 2374 @@
    <<50009819, 49991017, 15724>> :> 2374 @@
    <<50009819, 49998796, 1746>> :> 1232 @@
    <<50009819, 49998796, 8736>> :> 1376 @@
    <<50009819, 49998796, 12228>> :> 1505 @@
    <<50009819, 49998796, 22710>> :> 2034 @@
    <<50009819, 50006575, 5240>> :> 520 @@
    <<50009819, 50006575, 5242>> :> 520 @@
    <<50009819, 50006575, 15722>> :> 1180 @@
    <<50009819, 50006575, 15724>> :> 1180 @@
    <<50009819, 50014354, 1746>> :> 519 @@
    <<50009819, 50014354, 8736>> :> 802 @@
    <<50009819, 50014354, 12228>> :> 1009 @@
    <<50009819, 50014354, 22710>> :> 1699 @@
    <<50009819, 50022133, 5240>> :> 1420 @@
    <<50009819, 50022133, 5242>> :> 1420 @@
    <<50009819, 50022133, 15722>> :> 1771 @@
    <<50009819, 50022133, 15724>> :> 1771

\* haversineDistanceMeters(seed, { lat: center[0], lng: center[1] })
hexHaversineDistanceMeters(seed, center) ==
    HexHaversineTable[<<seed.lat, center[1], Abs(center[2] - seed.lng)>>]

\* 111320 * Math.cos(toRadians(centerLat)), rounded to whole metres per
\* degree, for the centre latitudes of the model's seed sets
MetersPerDegreeLngTable ==
    50000000 :> 71555 @@
    50004909 :> 71548

metersPerDegreeLat == 111320

metersPerDegreeLng(centerLat) == MetersPerDegreeLngTable[centerLat]

\* 1000000 microdegrees per degree
MicroDegrees == 1000000

\* 1000 * Math.sqrt(3), to the nearest integer
SqrtThreeMilli == 1732

\* paddingMeters / metersPerDegree in microdegrees, and likewise every
\* quotient of metres by metres per degree
DegreesOf(meters, perDegree) == RoundDiv(meters * MicroDegrees, perDegree)

\* Seed points: A, and B 1093 m north and 125 m east of A.
SeedA == [lat |-> 50000000, lng |-> 8270000]

SeedB == [lat |-> 50009819, lng |-> 8271747]

\* points: the seed arrays handed to buildHexGrid
SeedArrays ==
    {<<>>, <<SeedA>>, <<SeedA, SeedA>>, <<SeedA, SeedB>>, <<SeedB, SeedA>>}

\* cellRadiusMeters: below zero, zero, and DEFAULT_COVERAGE_RADIUS_METERS
\* * 1.25 as the planning map passes it
CellRadii == {-100, 0, 500}

RECURSIVE MinOver(_, _)
MinOver(points, field) ==
    IF Len(points) = 1 THEN points[1][field]
    ELSE Min(MinOver(Front(points), field), Last(points)[field])

RECURSIVE MaxOver(_, _)
MaxOver(points, field) ==
    IF Len(points) = 1 THEN points[1][field]
    ELSE Max(MaxOver(Front(points), field), Last(points)[field])

\* computeBounds(points) for points.length > 0
computeBounds(points) ==
    [minLat |-> MinOver(points, "lat"), maxLat |-> MaxOver(points, "lat"),
     minLng |-> MinOver(points, "lng"), maxLng |-> MaxOver(points, "lng")]

\* expandBounds(bounds, paddingMeters)
expandBounds(bounds, paddingMeters) ==
    LET centerLat == (bounds.minLat + bounds.maxLat) \div 2
        latDelta == DegreesOf(paddingMeters, metersPerDegreeLat)
        lngDelta == DegreesOf(paddingMeters, metersPerDegreeLng(centerLat))
    IN  [minLat |-> bounds.minLat - latDelta,
         maxLat |-> bounds.maxLat + latDelta,
         minLng |-> bounds.minLng - lngDelta,
         maxLng |-> bounds.maxLng + lngDelta]

\* The constants buildHexGrid computes before its loops, for non-empty points
Expanded(points, cellRadiusMeters) ==
    expandBounds(computeBounds(points), cellRadiusMeters * 2)

GridCenterLat(points, cellRadiusMeters) ==
    (Expanded(points, cellRadiusMeters).minLat
         + Expanded(points, cellRadiusMeters).maxLat) \div 2

\* (Math.sqrt(3) * cellRadiusMeters) / metersPerDegreeLat
LatStep(cellRadiusMeters) ==
    RoundDiv(SqrtThreeMilli * cellRadiusMeters * 1000, metersPerDegreeLat)

\* (1.5 * cellRadiusMeters) / metersPerDegreeLng
LngStep(points, cellRadiusMeters) ==
    RoundDiv(1500 * cellRadiusMeters * 1000,
             metersPerDegreeLng(GridCenterLat(points, cellRadiusMeters)))

\* cellRadiusMeters / metersPerDegreeLng
LngOffset(points, cellRadiusMeters) ==
    DegreesOf(cellRadiusMeters,
              metersPerDegreeLng(GridCenterLat(points, cellRadiusMeters)))

\* startLng without the offset of odd rows
StartLngWithoutOffset(points, cellRadiusMeters, row) ==
    Expanded(points, cellRadiusMeters).minLng

\* expanded.minLng + (isOddRow ? lngOffset : 0)
StartLng(points, cellRadiusMeters, row) ==
    Expanded(points, cellRadiusMeters).minLng
        + (IF row % 2 = 1 THEN LngOffset(points, cellRadiusMeters) ELSE 0)

\* cells.push({ id, polygon, center }): the cell is carried as its row and
\* its center [lat, lng]; the polygon and the id made of it are functions of
\* the two.
HexCell(row, lat, lng) == [row |-> row, center |-> <<lat, lng>>]

HexInit ==
    /\ hexSeeds \in SeedArrays
    /\ hexRadius \in CellRadii
    /\ hexLat = 0
    /\ hexLng = 0
    /\ hexRow = 0
    /\ hexCells = <<>>
    /\ hexPc = "idle"
    \* the other components are not run
    /\ SearchOff
    /\ CoverageOff
    /\ HeatOff
    /\ ScoreOff
    /\ CalcOff
    /\ BaseGridOff
    /\ MapStationsOff
    /\ PlanningOff
    /\ ViewOff
    /\ DebounceOff
    /\ ProposalsOff

\* buildHexGrid(points, cellRadiusMeters) up to the first test of the outer
\* loop: if (!bounds) return []; otherwise let row = 0, lat = expanded.minLat
BuildHexGrid ==
    /\ hexPc = "idle"
    /\ IF hexSeeds = <<>>
       THEN /\ hexPc' = "done"
            /\ UNCHANGED hexLat
       ELSE /\ hexPc' = "outer"
            /\ hexLat' = Expanded(hexSeeds, hexRadius).minLat
    /\ UNCHANGED <<hexSeeds, hexRadius, hexLng, hexRow, hexCells>>
    /\ UNCHANGED nonHexVars

\* lat <= expanded.maxLat + latStep, true: let lng = startLng
OuterLoopEnter ==
    /\ hexPc = "outer"
    /\ hexLat <= Expanded(hexSeeds, hexRadius).maxLat + LatStep(hexRadius)
    /\ hexLng' = StartLng(hexSeeds, hexRadius, hexRow)
    /\ hexPc' = "inner"
    /\ UNCHANGED <<hexSeeds, hexRadius, hexLat, hexRow, hexCells>>
    /\ UNCHANGED nonHexVars

\* lat <= expanded.maxLat + latStep, false: return cells
OuterLoopExit ==
    /\ hexPc = "outer"
    /\ hexLat > Expanded(hexSeeds, hexRadius).maxLat + LatStep(hexRadius)
    /\ hexPc' = "done"
    /\ UNCHANGED <<hexSeeds, hexRadius, hexLat, hexLng, hexRow, hexCells>>
    /\ UNCHANGED nonHexVars

\* lng <= expanded.maxLng + lngStep, true: cells.push(...); lng += lngStep.
\* The model follows a run up to MaxHexCells cells.
InnerLoopPush ==
    /\ hexPc = "inner"
    /\ hexLng <= Expanded(hexSeeds, hexRadius).maxLng
                     + LngStep(hexSeeds, hexRadius)
    /\ Len(hexCells) < MaxHexCells
    /\ hexCells' = Append(hexCells, HexCell(hexRow, hexLat, hexLng))
    /\ hexLng' = hexLng + LngStep(hexSeeds, hexRadius)
    /\ UNCHANGED <<hexSeeds, hexRadius, hexLat, hexRow, hexPc>>
    /\ UNCHANGED nonHexVars

\* lng <= expanded.maxLng + lngStep, false: row += 1; lat += latStep.
\* The model follows a run up to MaxHexRows rows.
InnerLoopExit ==
    /\ hexPc = "inner"
    /\ hexLng > Expanded(hexSeeds, hexRadius).maxLng
                    + LngStep(hexSeeds, hexRadius)
    /\ hexRow < MaxHexRows
    /\ hexRow' = hexRow + 1
    /\ hexLat' = hexLat + LatStep(hexRadius)
    /\ hexPc' = "outer"
    /\ UNCHANGED <<hexSeeds, hexRadius, hexLng, hexCells>>
    /\ UNCHANGED nonHexVars

HexNext ==
    \/ BuildHexGrid
    \/ OuterLoopEnter
    \/ OuterLoopExit
    \/ InnerLoopPush
    \/ InnerLoopExit

----------------------------------------------------------------------------
(* PotentialSurfaceModel: the static layers of createBaseGrid *)

\* Sample points of sampleGridPoints() (microdegrees): the points where the
\* population and transit layers and where the POI layer are greatest, a
\* point between the hotspots, and the two corners where the layers are
\* least.
GridSamplePoints ==
    { [lat |-> 49998500, lng |-> 8274500],
      [lat |-> 49998500, lng |-> 8270000],
      [lat |-> 49994000, lng |-> 8265500],
      [lat |-> 50048000, lng |-> 8180000],
      [lat |-> 49940000, lng |-> 8180000] }

\* scoreFromHotspots(point.lat, point.lng, hotspots, sigmaMeters) in
\* 1/HeatScale for the three layers (populationHotspots with sigma 480,
\* poiHotspots with sigma 380, transitStops with sigma 280).
\* Key: <<layer, point.lat, point.lng>>.
ScoreFromHotspotsTable ==
    <<"population", 49998500, 8274500>> :> 11215 @@
    <<"poi", 49998500, 8274500>> :> 7971 @@
    <<"transit", 49998500, 8274500>> :> 9726 @@
    <<"population", 49998500, 8270000>> :> 10672 @@
    <<"poi", 49998500, 8270000>> :> 9788 @@
    <<"transit", 49998500, 8270000>> :> 5824 @@
    <<"population", 49994000, 8265500>> :> 5154 @@
    <<"poi", 49994000, 8265500>> :> 2030 @@
    <<"transit", 49994000, 8265500>> :> 269 @@
    <<"population", 50048000, 8180000>> :> 0 @@
    <<"poi", 50048000, 8180000>> :> 0 @@
    <<"transit", 50048000, 8180000>> :> 0 @@
    <<"population", 49940000, 8180000>> :> 0 @@
    <<"poi", 49940000, 8180000>> :> 0 @@
    <<"transit", 49940000, 8180000>> :> 0

scoreFromHotspots(point, layer) ==
    ScoreFromHotspotsTable[<<layer, point.lat, point.lng>>]

\* Math.max(...values, seed)
RECURSIVE MaxOfValues(_, _)
MaxOfValues(values, seed) ==
    IF values = <<>> THEN seed
    ELSE Max(MaxOfValues(Front(values), seed), Last(values))

\* normalize: max = Math.max(...values, 1); values.map(value => value / max)
normalize(values) ==
    LET max == MaxOfValues(values, HeatScale)
    IN  [i \in 1..Len(values) |-> RoundDiv(values[i] * HeatScale, max)]

\* buildLayerScores(points, hotspots, sigmaMeters)
buildLayerScores(points, layer) ==
    normalize([i \in 1..Len(points) |-> scoreFromHotspots(points[i], layer)])

\* createBaseGrid(), over the sample points gridPoints; the id is the pair
\* of coordinates
createBaseGrid(gridPoints) ==
    LET populationLayer == buildLayerScores(gridPoints, "population")
        poiLayer == buildLayerScores(gridPoints, "poi")
        transitLayer == buildLayerScores(gridPoints, "transit")
    IN  [index \in 1..Len(gridPoints) |->
            [id |-> <<gridPoints[index].lat, gridPoints[index].lng>>,
             lat |-> gridPoints[index].lat,
             lng |-> gridPoints[index].lng,
             layerScores |-> [population |-> populationLayer[index],
                              poi |-> poiLayer[index],
                              transit |-> transitLayer[index]]]]

BaseGridInit ==
    /\ baseGridPoints \in SeqsUpTo(GridSamplePoints, MaxSamplePoints)
    /\ baseGrid = <<>>
    /\ basePc = "idle"
    \* the other components are not run
    /\ SearchOff
    /\ CoverageOff
    /\ HeatOff
    /\ ScoreOff
    /\ CalcOff
    /\ HexOff
    /\ MapStationsOff
    /\ PlanningOff
    /\ ViewOff
    /\ DebounceOff
    /\ ProposalsOff

\* const baseGrid = useMemo(() => createBaseGrid(), [])
CreateBaseGrid ==
    /\ basePc = "idle"
    /\ baseGrid' = createBaseGrid(baseGridPoints)
    /\ basePc' = "created"
    /\ UNCHANGED baseGridPoints
    /\ UNCHANGED nonBaseGridVars

BaseGridNext ==
    \/ CreateBaseGrid

----------------------------------------------------------------------------
(* mapExistingStations *)

\* capacity?: number of a station handed in: <<>> when missing, otherwise
\* below 0, 0, inside (0, 20), 20 and above 20
CapacityChoices == {<<>>, <<-5>>, <<0>>, <<7>>, <<20>>, <<35>>}

\* (n).toString() for the numeric ids of the model
NumberToString(n) == <<"1", "2", "3", "4", "5", "6", "7", "8", "9">>[n]

\* The arrays handed to mapExistingStations: the numeric id is the position
\* in the array, all stations at one place (lat, lng in millidegrees); name
\* is copied unread and left out.
RawStationArrays ==
    { [i \in 1..Len(cs) |->
          [id |-> i, lat |-> 50000, lng |-> 8270, capacity |-> cs[i]]] :
        cs \in SeqsUpTo(CapacityChoices, MaxRawStations) }

\* the callback of stations.map without the Math.max(..., 0)
mapExistingStationUnfloored(station) ==
    LET capacityScore == Min(OrZero(station.capacity), 20)
        coverageRadiusMeters ==
            DEFAULT_COVERAGE_RADIUS_METERS + (capacityScore * 100) \div 20
    IN  [id |-> NumberToString(station.id),
         lat |-> station.lat,
         lng |-> station.lng,
         capacity |-> station.capacity,
         coverageRadiusMeters |-> Min(coverageRadiusMeters, 500)]

\* the callback of stations.map; capacityScore / 20 * 100 is a whole number
\* for the whole capacities of the model
mapExistingStation(station) ==
    LET capacityScore == Min(Max(OrZero(station.capacity), 0), 20)
        coverageRadiusMeters ==
            DEFAULT_COVERAGE_RADIUS_METERS + (capacityScore * 100) \div 20
    IN  [id |-> NumberToString(station.id),
         lat |-> station.lat,
         lng |-> station.lng,
         capacity |-> station.capacity,
         coverageRadiusMeters |-> Min(coverageRadiusMeters, 500)]

\* mapExistingStations(stations)
mapExistingStations(sts) ==
    [i \in 1..Len(sts) |-> mapExistingStation(sts[i])]

MapStationsInit ==
    /\ rawStations \in RawStationArrays
    /\ mappedStations = <<>>
    /\ mapPc = "idle"
    \* the other components are not run
    /\ SearchOff
    /\ CoverageOff
    /\ HeatOff
    /\ ScoreOff
    /\ CalcOff
    /\ HexOff
    /\ BaseGridOff
    /\ PlanningOff
    /\ ViewOff
    /\ DebounceOff
    /\ ProposalsOff

\* const existingStations = mapExistingStations(stations)
MapExistingStations ==
    /\ mapPc = "idle"
    /\ mappedStations' = mapExistingStations(rawStations)
    /\ mapPc' = "mapped"
    /\ UNCHANGED rawStations
    /\ UNCHANGED nonMapStationsVars

MapStationsNext ==
    \/ MapExistingStations

-----------------------------------------------------------------------------
(* Planned stations: createPlanningActions and the clicks of PlanningMap *)

\* Where the map is clicked (millidegrees).
ClickPositions ==
    {[lat |-> 50000, lng |-> 8270], [lat |-> 49990, lng |-> 8260]}

\* What Math.random().toString(36).slice(2, 8) yields.
RandomSuffixes == {"k3f9x1", "q7m2ab"}

\* display_name of the reverse geocoder; <<>> when the answer has none.
GeocodedLabels == {<<>>, <<"Mocked Address">>}

\* value.toFixed(5) of the coordinates that are clicked.
ToFixed5Table ==
    (50000 :> "50.00000" @@ 49990 :> "49.99000"
     @@ 8270 :> "8.27000" @@ 8260 :> "8.26000")

formatCoordinate(value) == ToFixed5Table[value]

\* `Geplanter Standort (${formatCoordinate(lat)}, ${formatCoordinate(lng)})`:
\* a text is the sequence of its parts.
FallbackLabel(lat, lng) ==
    <<"Geplanter Standort (", formatCoordinate(lat), ", ",
      formatCoordinate(lng), ")">>

\* An id is written <<number, text>>.  crypto.randomUUID(), where the
\* platform has it, yields 122 random bits, taken here as a value that never
\* repeats: the n-th call yields <<n, "uuid">>.  Without it the id is
\* `${Date.now()}-${suffix}`, <<clock, suffix>>: two calls in the same
\* millisecond that draw the same suffix yield the same id.
createId(suffix) ==
    IF hasRandomUUID THEN <<idsCreated + 1, "uuid">>
    ELSE <<clock, suffix>>

\* A station the page finds in the query string or in the storage.
LoadedStation ==
    [id |-> <<0, "uuid">>, lat |-> 49990, lng |-> 8260,
     label |-> <<"Hauptbahnhof">>, createdAt |-> 0, manualSlots |-> <<>>]

\* Another one, as a link shared by somebody else carries it.
SharedStation ==
    [id |-> <<0, "k3f9x1">>, lat |-> 50000, lng |-> 8270,
     label |-> <<"Mocked Address">>, createdAt |-> 0, manualSlots |-> <<12>>]

\* JSON.stringify of a station: a key whose value is undefined is left out
\* (analysis is a function of lat and lng and is not carried).
StationJSON(st) ==
    IF st.manualSlots = <<>>
    THEN [id |-> st.id, lat |-> st.lat, lng |-> st.lng, label |-> st.label,
          createdAt |-> st.createdAt]
    ELSE [id |-> st.id, lat |-> st.lat, lng |-> st.lng, label |-> st.label,
          createdAt |-> st.createdAt, manualSlots |-> st.manualSlots[1]]

\* JSON.stringify(stations)
JSONStringify(list) == [i \in 1..Len(list) |-> StationJSON(list[i])]

\* An entry of JSON.parse(candidate) as parseStations returns it: the
\* entries the page has written have numbers as lat, lng and createdAt and
\* a string as id, so the filter keeps them and createdAt is taken over; a
\* key that is missing reads as undefined.
StationOfJSON(entry) ==
    [id |-> entry.id, lat |-> entry.lat, lng |-> entry.lng,
     label |-> entry.label, createdAt |-> entry.createdAt,
     manualSlots |-> IF "manualSlots" \in DOMAIN entry
                     THEN <<entry.manualSlots>> ELSE <<>>]

\* parseStations(value): <<>> for null, otherwise <<the list>>.
parseStations(value) ==
    IF value = <<>> THEN <<>>
    ELSE <<[i \in 1..Len(value[1]) |-> StationOfJSON(value[1][i])]>>

\* initializeStations that asks the storage before the query string
initializeStationsStorageFirst(query, storage) ==
    IF parseStations(storage) # <<>> THEN parseStations(storage)[1]
    ELSE IF parseStations(query) # <<>> THEN parseStations(query)[1]
    ELSE <<>>

\* initializeStations(): loadFromQuery(), else loadFromStorage(), else [].
initializeStations(query, storage) ==
    IF parseStations(query) # <<>> THEN parseStations(query)[1]
    ELSE IF parseStations(storage) # <<>> THEN parseStations(storage)[1]
    ELSE <<>>

\* updateUrl(stations): the parameter `planning` after the call, <<>> when
\* it has been deleted.
updateUrl(list) ==
    IF Len(list) = 0 THEN <<>> ELSE <<JSONStringify(list)>>

\* What the query string and the storage hold when the page is opened:
\* nothing; a list in the storage only; a list in both; a shared link that
\* differs from the storage.
InitialPersisted ==
    { [query |-> <<>>, storage |-> <<>>],
      [query |-> <<>>, storage |-> <<JSONStringify(<<LoadedStation>>)>>],
      [query |-> <<JSONStringify(<<LoadedStation>>)>>,
       storage |-> <<JSONStringify(<<LoadedStation>>)>>],
      [query |-> <<JSONStringify(<<SharedStation>>)>>,
       storage |-> <<JSONStringify(<<LoadedStation>>)>>] }

\* The inputs of the slots field: empty (null) or a positive number.
ManualSlotInputs == {<<>>, <<12>>}

\* nextStation of addStation
NextStation(station, id) ==
    [id |-> id, lat |-> station.lat, lng |-> station.lng,
     label |-> station.label, createdAt |-> clock, manualSlots |-> <<>>]

\* addStation: next = [...getStations(), nextStation]
addStation(current, station, id) == Append(current, NextStation(station, id))

\* updateLabel: getStations().map(entry => entry.id === id ? {...} : entry)
updateLabel(current, id, label) ==
    [i \in 1..Len(current) |->
        IF current[i].id = id THEN [current[i] EXCEPT !.label = label]
        ELSE current[i]]

\* updateManualSlots: manualSlots: slots ?? undefined on the entry of the id
updateManualSlots(current, id, slots) ==
    [i \in 1..Len(current) |->
        IF current[i].id = id THEN [current[i] EXCEPT !.manualSlots = slots]
        ELSE current[i]]

PlanningInit ==
    /\ \E persisted \in InitialPersisted :
        /\ urlStations = persisted.query
        /\ storedStations = persisted.storage
        /\ planningStations
               = initializeStations(persisted.query, persisted.storage)
        /\ baseCount
               = Len(initializeStations(persisted.query, persisted.storage))
    /\ pendingLookup = <<>>
    /\ lookupsInFlight = {}
    /\ clock = 1
    /\ hasRandomUUID \in BOOLEAN
    /\ idsCreated = 0
    /\ returnedId = <<>>
    /\ lastClick = <<>>
    /\ clicks = 0
    /\ planPc = "loaded"
    \* the other components are not run
    /\ SearchOff
    /\ CoverageOff
    /\ HeatOff
    /\ ScoreOff
    /\ CalcOff
    /\ HexOff
    /\ BaseGridOff
    /\ MapStationsOff
    /\ ViewOff
    /\ DebounceOff
    /\ ProposalsOff

\* click -> createStation(lat, lng): addStation through the actions of the
\* current render, whose getStations returns that render's stations; then
\* handleReverseGeocode replaces the pending timer by one whose callback
\* holds the same actions, that is the list as it was before this click.
\* The model follows a page up to maxIds clicks.
CreateStationUpTo(maxIds) ==
    /\ planPc # "off"
    /\ idsCreated < maxIds
    /\ \E position \in ClickPositions, suffix \in RandomSuffixes :
        LET station == [lat |-> position.lat, lng |-> position.lng,
                        label |-> FallbackLabel(position.lat, position.lng)]
            id == createId(suffix)
            next == addStation(planningStations, station, id)
        IN  /\ planningStations' = next
            /\ storedStations' = <<JSONStringify(next)>>
            /\ urlStations' = updateUrl(next)
            /\ returnedId' = <<id>>
            /\ lastClick' = <<station>>
            /\ pendingLookup' = <<[stationId |-> id,
                                   stations |-> planningStations]>>
    /\ idsCreated' = idsCreated + 1
    /\ clicks' = clicks + 1
    /\ planPc' = "addStation"
    /\ UNCHANGED <<lookupsInFlight, clock, hasRandomUUID, baseCount>>
    /\ UNCHANGED nonPlanningVars

CreateStation == CreateStationUpTo(MaxIds)

CreateSavedStation == CreateStationUpTo(MaxSavedIds)

\* The timer of handleReverseGeocode fires after REVERSE_GEOCODE_DELAY and
\* calls reverseGeocode.
LookupTimerFires ==
    /\ planPc # "off"
    /\ pendingLookup # <<>>
    /\ lookupsInFlight' = lookupsInFlight \cup {pendingLookup[1]}
    /\ pendingLookup' = <<>>
    /\ UNCHANGED <<planningStations, storedStations, urlStations, clock,
                   hasRandomUUID, idsCreated, returnedId, lastClick, clicks,
                   baseCount, planPc>>
    /\ UNCHANGED nonPlanningVars

\* reverseGeocode answers (or throws): with a label the callback runs
\* actions.updateLabel(stationId, label) on the list its actions hold.
ReverseGeocodeAnswers ==
    /\ planPc # "off"
    /\ \E lookup \in lookupsInFlight, label \in GeocodedLabels :
        /\ lookupsInFlight' = lookupsInFlight \ {lookup}
        /\ IF label # <<>>
           THEN LET next == updateLabel(lookup.stations, lookup.stationId,
                                        label)
                IN  /\ planningStations' = next
                    /\ storedStations' = <<JSONStringify(next)>>
                    /\ urlStations' = updateUrl(next)
                    /\ planPc' = "updateLabel"
           ELSE UNCHANGED <<planningStations, storedStations, urlStations,
                            planPc>>
    /\ UNCHANGED <<pendingLookup, clock, hasRandomUUID, idsCreated,
                   returnedId, lastClick, clicks, baseCount>>
    /\ UNCHANGED nonPlanningVars

\* applyManualSlots(stationId): actions.updateManualSlots(stationId, null)
\* for an empty input, actions.updateManualSlots(stationId, parsed) for a
\* positive number.
ApplyManualSlots ==
    /\ planPc # "off"
    /\ \E i \in 1..Len(planningStations), slots \in ManualSlotInputs :
        LET next == updateManualSlots(planningStations,
                                      planningStations[i].id, slots)
        IN  /\ planningStations' = next
            /\ storedStations' = <<JSONStringify(next)>>
            /\ urlStations' = updateUrl(next)
    /\ planPc' = "updateManualSlots"
    /\ UNCHANGED <<pendingLookup, lookupsInFlight, clock, hasRandomUUID,
                   idsCreated, returnedId, lastClick, clicks, baseCount>>
    /\ UNCHANGED nonPlanningVars

\* The button shown while stations.length > 0: actions.clearStations().
ClearStations ==
    /\ planPc # "off"
    /\ planningStations # <<>>
    /\ planningStations' = <<>>
    /\ storedStations' = <<JSONStringify(<<>>)>>
    /\ urlStations' = updateUrl(<<>>)
    /\ clicks' = 0
    /\ baseCount' = 0
    /\ planPc' = "clearStations"
    /\ UNCHANGED <<pendingLookup, lookupsInFlight, clock, hasRandomUUID,
                   idsCreated, returnedId, lastClick>>
    /\ UNCHANGED nonPlanningVars

\* The page is loaded again: useState(initializeStations); the timers and
\* the requests of the page before are gone.
ReloadPage ==
    /\ planPc \notin {"off", "loaded"}
    /\ planningStations' = initializeStations(urlStations, storedStations)
    /\ baseCount' = Len(initializeStations(urlStations, storedStations))
    /\ clicks' = 0
    /\ pendingLookup' = <<>>
    /\ lookupsInFlight' = {}
    /\ returnedId' = <<>>
    /\ lastClick' = <<>>
    /\ planPc' = "loaded"
    /\ UNCHANGED <<storedStations, urlStations, clock, hasRandomUUID,
                   idsCreated>>
    /\ UNCHANGED nonPlanningVars

\* A millisecond passes.
ClockTick ==
    /\ planPc # "off"
    /\ clock < MaxClock
    /\ clock' = clock + 1
    /\ UNCHANGED <<planningStations, storedStations, urlStations,
                   pendingLookup, lookupsInFlight, hasRandomUUID, idsCreated,
                   returnedId, lastClick, clicks, baseCount, planPc>>
    /\ UNCHANGED nonPlanningVars

PlanningNext ==
    \/ CreateStation
    \/ LookupTimerFires
    \/ ReverseGeocodeAnswers
    \/ ClearStations
    \/ ClockTick

\* The planning actions, the saving and the loading again, at one instant.
PersistenceNext ==
    \/ CreateSavedStation
    \/ LookupTimerFires
    \/ ReverseGeocodeAnswers
    \/ ApplyManualSlots
    \/ ClearStations
    \/ ReloadPage

-----------------------------------------------------------------------------
(* Single-point planning view: handleClick and its two fetches *)

\* Where the map of the view is clicked (millidegrees).
ViewClickPositions ==
    {[lat |-> 50000, lng |-> 8270], [lat |-> 49990, lng |-> 8260]}

\* How a fetch ends: res.ok and a body, or a thrown Error.
FetchOutcomes == {"fulfilled", "rejected"}

\* What the server answers for a point: the answers are carried by the
\* request they answer.
PlanningContextFor(p) == [requestedFor |-> p, kind |-> "context"]

NearbyStationsFor(p) == [requestedFor |-> p, kind |-> "nearby"]

\* getErrorMessage(e) of the Error a fetch for the point threw
ErrorMessageFor(p) == [requestedFor |-> p, kind |-> "error"]

\* Promise.all([getPlanningContext(...), getNearbyStations(...)]): rejected
\* as soon as one of the two is, fulfilled once both are.
PromiseAll(call) ==
    IF call.ctx = "rejected" \/ call.nb = "rejected" THEN "rejected"
    ELSE IF call.ctx = "fulfilled" /\ call.nb = "fulfilled" THEN "fulfilled"
    ELSE "pending"

ViewInit ==
    /\ viewPoint = <<>>
    /\ context = <<>>
    /\ nearby = <<>>
    /\ loading = FALSE
    /\ error = <<>>
    /\ handleClickCalls = <<>>
    /\ viewPc = "mounted"
    \* the other components are not run
    /\ SearchOff
    /\ CoverageOff
    /\ HeatOff
    /\ ScoreOff
    /\ CalcOff
    /\ HexOff
    /\ BaseGridOff
    /\ MapStationsOff
    /\ PlanningOff
    /\ DebounceOff
    /\ ProposalsOff

\* handleClick(lat, lng) up to its await: setPoint, setLoading(true),
\* setError(null), and the two requests are sent.
HandleClick ==
    /\ viewPc = "mounted"
    /\ Len(handleClickCalls) < MaxViewClicks
    /\ \E p \in ViewClickPositions :
        /\ viewPoint' = <<p>>
        /\ handleClickCalls' = Append(handleClickCalls,
               [point |-> p, ctx |-> "pending", nb |-> "pending"])
    /\ loading' = TRUE
    /\ error' = <<>>
    /\ UNCHANGED <<context, nearby, viewPc>>
    /\ UNCHANGED nonViewVars

\* The rest of handleClick, run when the Promise.all of call i settles:
\* the try branch or the catch branch, then finally.
AfterAwait(i, before, after) ==
    IF PromiseAll(before) # "pending" \/ PromiseAll(after) = "pending"
    THEN UNCHANGED <<context, nearby, loading, error>>
    ELSE IF PromiseAll(after) = "fulfilled"
    THEN /\ context' = <<PlanningContextFor(after.point)>>
         /\ nearby' = <<NearbyStationsFor(after.point)>>
         /\ loading' = FALSE
         /\ UNCHANGED error
    ELSE /\ error' = <<ErrorMessageFor(after.point)>>
         /\ context' = <<>>
         /\ nearby' = <<>>
         /\ loading' = FALSE

\* A getPlanningContext request answers or fails.
ContextFetchSettles ==
    /\ viewPc = "mounted"
    /\ \E i \in 1..Len(handleClickCalls), outcome \in FetchOutcomes :
        /\ handleClickCalls[i].ctx = "pending"
        /\ LET after == [handleClickCalls[i] EXCEPT !.ctx = outcome]
           IN  /\ handleClickCalls' = [handleClickCalls EXCEPT ![i] = after]
               /\ AfterAwait(i, handleClickCalls[i], after)
    /\ UNCHANGED <<viewPoint, viewPc>>
    /\ UNCHANGED nonViewVars

\* A getNearbyStations request answers or fails.
NearbyFetchSettles ==
    /\ viewPc = "mounted"
    /\ \E i \in 1..Len(handleClickCalls), outcome \in FetchOutcomes :
        /\ handleClickCalls[i].nb = "pending"
        /\ LET after == [handleClickCalls[i] EXCEPT !.nb = outcome]
           IN  /\ handleClickCalls' = [handleClickCalls EXCEPT ![i] = after]
               /\ AfterAwait(i, handleClickCalls[i], after)
    /\ UNCHANGED <<viewPoint, viewPc>>
    /\ UNCHANGED nonViewVars

ViewNext ==
    \/ HandleClick
    \/ ContextFetchSettles
    \/ NearbyFetchSettles

-----------------------------------------------------------------------------
(* PlanningMap: the debounced recomputation of the heat points *)

\* baseGrid: created once (useMemo with no dependencies).
DebounceGrid ==
    <<[id |-> 1, lat |-> 50000, lng |-> 8270,
       layerScores |-> [population |-> 10000, poi |-> 5000, transit |-> 0]],
      [id |-> 2, lat |-> 50010, lng |-> 8270,
       layerScores |-> [population |-> 10000, poi |-> 10000,
                        transit |-> 10000]]>>

\* The values the state stations takes.
DebounceStationLists == {sts \in PlanningStationArrays : Len(sts) <= 1}

\* The values the state weights takes.
DebounceWeights ==
    {DEFAULT_WEIGHTS,
     [population |-> 15000, poi |-> 15000, transit |-> 15000,
      coverage |-> 15000],
     [population |-> 15000, poi |-> 0, transit |-> 0, coverage |-> 0]}

\* The effect set up again with no cleanup of the run before.
TimersWithoutCleanup(timers, id) == timers

\* return () => clearTimeout(debounceHandle): the cleanup of an effect run
\* clears the timer that run has set (nothing when it has fired).
TimersAfterCleanup(timers, id) == {t \in timers : t.id # id}

DebounceInit ==
    /\ heatGrid = DebounceGrid
    /\ heatStations \in DebounceStationLists
    /\ heatWeights = DEFAULT_WEIGHTS
    /\ heatPoints = computeHeatPoints(heatGrid, heatStations, heatWeights)
    /\ heatPc = "off"
    /\ pendingTimers = {}
    /\ effectRuns = 0
    /\ effectPending = TRUE
    /\ changes = 0
    /\ debouncePc = "mounted"
    \* the other components are not run
    /\ SearchOff
    /\ CoverageOff
    /\ ScoreOff
    /\ CalcOff
    /\ HexOff
    /\ BaseGridOff
    /\ MapStationsOff
    /\ PlanningOff
    /\ ViewOff
    /\ ProposalsOff

\* setStations(next): the list of planned stations changes.
ChangeStations ==
    /\ debouncePc = "mounted"
    /\ changes < MaxChanges
    /\ \E next \in DebounceStationLists \ {heatStations} :
           heatStations' = next
    /\ effectPending' = TRUE
    /\ changes' = changes + 1
    /\ UNCHANGED <<heatGrid, heatWeights, heatPoints, heatPc, pendingTimers,
                   effectRuns, debouncePc>>
    /\ UNCHANGED nonHeatNorDebounceVars

\* setWeights(...): a slider is moved.
ChangeWeights ==
    /\ debouncePc = "mounted"
    /\ changes < MaxChanges
    /\ \E next \in DebounceWeights \ {heatWeights} : heatWeights' = next
    /\ effectPending' = TRUE
    /\ changes' = changes + 1
    /\ UNCHANGED <<heatGrid, heatStations, heatPoints, heatPc, pendingTimers,
                   effectRuns, debouncePc>>
    /\ UNCHANGED nonHeatNorDebounceVars

\* After the render with changed [baseGrid, stations, weights] (and after
\* the mount) the effect runs: the cleanup of the run before, then
\* setTimeout(() => setHeatPoints(computeHeatPoints(...)), 200) with the
\* stations and weights of this render.
RunDebounceEffect ==
    /\ debouncePc = "mounted"
    /\ effectPending
    /\ pendingTimers' =
           TimersAfterCleanup(pendingTimers, effectRuns)
               \cup {[id |-> effectRuns + 1, stations |-> heatStations,
                      weights |-> heatWeights]}
    /\ effectRuns' = effectRuns + 1
    /\ effectPending' = FALSE
    /\ UNCHANGED <<heatGrid, heatStations, heatWeights, heatPoints, heatPc,
                   changes, debouncePc>>
    /\ UNCHANGED nonHeatNorDebounceVars

\* 200 ms have passed: the callback of a timer runs
\* setHeatPoints(computeHeatPoints(baseGrid, stations, weights)) with the
\* stations and weights of the render that set it.
DebounceTimerFires ==
    /\ debouncePc = "mounted"
    /\ \E timer \in pendingTimers :
        /\ heatPoints' = computeHeatPoints(heatGrid, timer.stations,
                                           timer.weights)
        /\ pendingTimers' = pendingTimers \ {timer}
    /\ UNCHANGED <<heatGrid, heatStations, heatWeights, heatPc, effectRuns,
                   effectPending, changes, debouncePc>>
    /\ UNCHANGED nonHeatNorDebounceVars

DebounceNext ==
    \/ ChangeStations
    \/ ChangeWeights
    \/ RunDebounceEffect
    \/ DebounceTimerFires

-----------------------------------------------------------------------------
(* Multi-proposal planning view: proposals, compare list and BEST *)

\* The decimal digits of n < 100, as Number.prototype.toString writes them.
Digits == <<"0", "1", "2", "3", "4", "5", "6", "7", "8", "9">>

\* Date.now().toString()
DateNowToString(n) ==
    IF n < 10 THEN <<Digits[n + 1]>>
    ELSE <<Digits[(n \div 10) + 1], Digits[(n % 10) + 1]>>

\* What the two endpoints answer for a clicked point: a pair
\* <<PlanningContextResponse, NearbyStationsResponse>>.
ProposalAnswers ==
    { <<[schools |-> <<3>>, universities |-> <<2>>, shops |-> <<24>>,
         bus_stops |-> <<4>>, railway_stations |-> <<1>>],
        [nearest_station_distance_m |-> <<5000>>,
         stations_in_radius |-> <<0>>]>>,
      <<[schools |-> <<0>>, universities |-> <<>>, shops |-> <<0>>,
         bus_stops |-> <<>>, railway_stations |-> <<0>>],
        [nearest_station_distance_m |-> <<150>>,
         stations_in_radius |-> <<>>]>> }

\* Where the map of the view is clicked (millidegrees).
ProposalClickPositions == {[lat |-> 50000, lng |-> 8270]}

\* How the Promise.all of a call of handleClick settles: fulfilled with the
\* two answers, or rejected with an Error.
ProposalFetchResults ==
    {[ok |-> TRUE, answer |-> <<a>>] : a \in ProposalAnswers}
    \cup {[ok |-> FALSE, answer |-> <<>>]}

\* getErrorMessage(e) of the Error a rejected fetch threw
FetchErrorMessage == "Failed to fetch"

\* const newProposal: Proposal = {...} of handleClick; the name carries the
\* char code String.fromCharCode turns into the letter.
NewProposal(id, lat, lng) ==
    [id |-> id, name |-> 65 + Len(proposals), lat |-> lat, lng |-> lng,
     context |-> <<>>, nearby |-> <<>>, loading |-> TRUE, error |-> <<>>]

\* The two updaters of handleClick after the await, applied to prev:
\* prev.map((p) => p.id === id ? {...p, context, nearby, loading: false,
\* error} : p)
ApplyFetchResultToAll(prev, id, result) ==
    [i \in 1..Len(prev) |->
        IF result.ok
        THEN [prev[i] EXCEPT !.context = <<result.answer[1][1]>>,
                             !.nearby = <<result.answer[1][2]>>,
                             !.loading = FALSE,
                             !.error = <<>>]
        ELSE [prev[i] EXCEPT !.context = <<>>,
                             !.nearby = <<>>,
                             !.loading = FALSE,
                             !.error = <<FetchErrorMessage>>]]

ApplyFetchResult(prev, id, result) ==
    [i \in 1..Len(prev) |->
        IF prev[i].id = id
        THEN IF result.ok
             THEN [prev[i] EXCEPT !.context = <<result.answer[1][1]>>,
                                  !.nearby = <<result.answer[1][2]>>,
                                  !.loading = FALSE,
                                  !.error = <<>>]
             ELSE [prev[i] EXCEPT !.context = <<>>,
                                  !.nearby = <<>>,
                                  !.loading = FALSE,
                                  !.error = <<FetchErrorMessage>>]
        ELSE prev[i]]

\* array.includes(x)
Includes(array, x) == \E i \in 1..Len(array) : array[i] = x

\* prev.filter((x) => x !== id)
WithoutId(array, id) == SelectSeq(array, LAMBDA x : x # id)

\* prev.filter((p) => p.id !== id)
WithoutProposal(prev, id) == SelectSeq(prev, LAMBDA p : p.id # id)

\* const compareProposals = proposals.filter((p) =>
\*     compareIds.includes(p.id))
CompareProposalsOf(ps, ids) == SelectSeq(ps, LAMBDA p : Includes(ids, p.id))

compareProposals == CompareProposalsOf(proposals, compareIds)

\* calculateScore(p.context, p.nearby)?.normalizedTotal ?? -1
ScoreOrMinusOne(p) ==
    LET s == calculateScore(p.context, p.nearby)
    IN  IF s = <<>> THEN -1 ELSE s[1].normalizedTotal

\* The loop of autoPickBest from the i-th compared proposal on; bestSoFar is
\* the variable best of the function:
\* <<>> (null) or <<{id, val}>>.
RECURSIVE AutoPickLoopLastOnTies(_, _, _)
AutoPickLoopLastOnTies(ps, i, bestSoFar) ==
    IF i > Len(ps) THEN bestSoFar
    ELSE LET s == ScoreOrMinusOne(ps[i])
         IN  AutoPickLoopLastOnTies(ps, i + 1,
                 IF bestSoFar = <<>> \/ s >= bestSoFar[1].val
                 THEN <<[id |-> ps[i].id, val |-> s]>>
                 ELSE bestSoFar)

RECURSIVE AutoPickLoop(_, _, _)
AutoPickLoop(ps, i, bestSoFar) ==
    IF i > Len(ps) THEN bestSoFar
    ELSE LET s == ScoreOrMinusOne(ps[i])
         IN  AutoPickLoop(ps, i + 1,
                 IF bestSoFar = <<>> \/ s > bestSoFar[1].val
                 THEN <<[id |-> ps[i].id, val |-> s]>>
                 ELSE bestSoFar)

\* What autoPickBest() returns for the compared proposals of the render:
\* <<>> is null.
autoPickBest(ps) ==
    LET found == AutoPickLoop(ps, 1, <<>>)
    IN  IF found # <<>> THEN <<found[1].id>> ELSE <<>>

\* proposals.find((x) => x.id === idToSave) ?? null
FindProposal(ps, id) ==
    IF \E i \in 1..Len(ps) : ps[i].id = id
    THEN <<ps[CHOOSE i \in 1..Len(ps) :
                 /\ ps[i].id = id
                 /\ \A j \in 1..(i - 1) : ps[j].id # id]>>
    ELSE <<>>

\* How the POST of saveBestToBackend ends.
PostOutcomes == {"saved", "failed"}

ProposalsInit ==
    /\ proposals = <<>>
    /\ selectedId = <<>>
    /\ compareIds = <<>>
    /\ bestId = <<>>
    /\ saveError = <<>>
    /\ saveOk = <<>>
    /\ proposalCalls = <<>>
    /\ dateNow = 0
    /\ savedProposal = <<>>
    /\ proposalsPc = "mounted"
    \* the other components are not run
    /\ SearchOff
    /\ CoverageOff
    /\ HeatOff
    /\ ScoreOff
    /\ CalcOff
    /\ HexOff
    /\ BaseGridOff
    /\ MapStationsOff
    /\ PlanningOff
    /\ ViewOff
    /\ DebounceOff

\* handleClick(lat, lng) up to its await.  Date.now() returns the value it
\* returned last or a later one.
ProposalClickUpTo(maxProposals) ==
    /\ proposalsPc # "off"
    /\ Len(proposalCalls) < maxProposals
    /\ \E now \in dateNow..Min(dateNow + 1, MaxDateNow),
          at \in ProposalClickPositions :
        LET id == DateNowToString(now)
        IN  /\ dateNow' = now
            /\ proposals' = Append(proposals, NewProposal(id, at.lat, at.lng))
            /\ selectedId' = <<id>>
            /\ proposalCalls' = Append(proposalCalls,
                   [id |-> id, settled |-> FALSE, updated |-> 0])
    /\ proposalsPc' = "handleClick"
    /\ UNCHANGED <<compareIds, bestId, saveError, saveOk,
                   savedProposal>>
    /\ UNCHANGED nonProposalsVars

ProposalClick == ProposalClickUpTo(MaxProposalClicks)

SavedProposalClick == ProposalClickUpTo(MaxSavedProposalClicks)

\* The rest of a call of handleClick: its Promise.all settles and the try
\* branch or the catch branch updates the proposals.
ProposalFetchSettles ==
    /\ proposalsPc # "off"
    /\ \E i \in 1..Len(proposalCalls), result \in ProposalFetchResults :
        /\ ~proposalCalls[i].settled
        /\ proposals' =
               ApplyFetchResult(proposals, proposalCalls[i].id, result)
        /\ proposalCalls' = [proposalCalls EXCEPT ![i] =
               [id |-> proposalCalls[i].id, settled |-> TRUE,
                updated |-> Len(CompareProposalsOf(proposals,
                                                   <<proposalCalls[i].id>>))]]
    /\ proposalsPc' = "handleClick:settled"
    /\ UNCHANGED <<selectedId, compareIds, bestId, saveError, saveOk, dateNow, savedProposal>>
    /\ UNCHANGED nonProposalsVars

\* The Compare checkbox of a proposal card: toggleCompare(p.id); the click
\* on the checkbox reaches the card, whose onClick selects the proposal.
ToggleCompare ==
    /\ proposalsPc # "off"
    /\ \E i \in 1..Len(proposals) :
        LET id == proposals[i].id
        IN  /\ compareIds' = IF Includes(compareIds, id)
                             THEN WithoutId(compareIds, id)
                             ELSE Append(compareIds, id)
            /\ selectedId' = <<id>>
    /\ proposalsPc' = "toggleCompare"
    /\ UNCHANGED <<proposals, bestId, saveError, saveOk, proposalCalls,
                   dateNow, savedProposal>>
    /\ UNCHANGED nonProposalsVars

\* The button "Best markieren" of a row of the compare table, which shows
\* the compared proposals when there are at least two: setBestId(p.id).
MarkBest ==
    /\ proposalsPc # "off"
    /\ Len(compareProposals) >= 2
    /\ \E i \in 1..Len(compareProposals) :
        bestId' = <<compareProposals[i].id>>
    /\ proposalsPc' = "setBestId"
    /\ UNCHANGED <<proposals, selectedId, compareIds, saveError, saveOk,
                   proposalCalls, dateNow, savedProposal>>
    /\ UNCHANGED nonProposalsVars

\* The button "Best automatisch waehlen" of the compare card: autoPickBest()
AutoPickBest ==
    /\ proposalsPc # "off"
    /\ Len(compareProposals) >= 2
    /\ LET picked == autoPickBest(compareProposals)
       IN  /\ bestId' = IF picked # <<>> THEN picked ELSE bestId
    /\ proposalsPc' = "autoPickBest"
    /\ UNCHANGED <<proposals, selectedId, compareIds, saveError, saveOk,
                   proposalCalls, dateNow, savedProposal>>
    /\ UNCHANGED nonProposalsVars

\* The Remove button of a proposal card: removeProposal(p.id)
RemoveProposal ==
    /\ proposalsPc # "off"
    /\ \E i \in 1..Len(proposals) :
        LET id == proposals[i].id
        IN  /\ proposals' = WithoutProposal(proposals, id)
            /\ selectedId' = IF selectedId = <<id>> THEN <<>> ELSE selectedId
            /\ compareIds' = WithoutId(compareIds, id)
            /\ bestId' = IF bestId = <<id>> THEN <<>> ELSE bestId
    /\ proposalsPc' = "removeProposal"
    /\ UNCHANGED <<saveError, saveOk, proposalCalls, dateNow, savedProposal>>
    /\ UNCHANGED nonProposalsVars

\* The button "Compare zuruecksetzen" of the compare card: clearCompare()
ClearCompare ==
    /\ proposalsPc # "off"
    /\ Len(compareProposals) >= 2
    /\ compareIds' = <<>>
    /\ bestId' = <<>>
    /\ saveError' = <<>>
    /\ saveOk' = <<>>
    /\ proposalsPc' = "clearCompare"
    /\ UNCHANGED <<proposals, selectedId, proposalCalls, dateNow, savedProposal>>
    /\ UNCHANGED nonProposalsVars

\* The button "Clear all" under the proposal cards: clearAll()
ClearAll ==
    /\ proposalsPc # "off"
    /\ Len(proposals) > 0
    /\ proposals' = <<>>
    /\ selectedId' = <<>>
    /\ compareIds' = <<>>
    /\ bestId' = <<>>
    /\ saveError' = <<>>
    /\ saveOk' = <<>>
    /\ proposalsPc' = "clearAll"
    /\ UNCHANGED <<proposalCalls, dateNow, savedProposal>>
    /\ UNCHANGED nonProposalsVars

\* let idToSave = bestId; if (!idToSave) idToSave = autoPickBest();
IdToSave ==
    IF bestId # <<>> THEN bestId ELSE autoPickBest(compareProposals)

\* const p = proposals.find((x) => x.id === idToSave) ?? null
ProposalToSave ==
    IF IdToSave = <<>> THEN <<>> ELSE FindProposal(proposals, IdToSave[1])

\* const payload = {...}: the fields that tell the proposals apart
SavePayload(p) ==
    [lat |-> p.lat, lng |-> p.lng,
     score |-> calculateScore(p.context, p.nearby)[1].normalizedTotal,
     label |-> calculateScore(p.context, p.nearby)[1].label,
     is_best |-> TRUE]

\* The button "BEST speichern (DB)" of the compare card: saveBestToBackend()
\* with its POST, which answers or fails.
SaveBestToBackend ==
    /\ proposalsPc # "off"
    /\ Len(compareProposals) >= 2
    /\ bestId' = IdToSave
    /\ LET p == ProposalToSave
       IN  IF p = <<>>
           THEN /\ saveError' = <<"Kein BEST ausgewaehlt.">>
                /\ saveOk' = <<>>
                /\ UNCHANGED savedProposal
           ELSE IF p[1].loading
           THEN /\ saveError' = <<"BEST laedt noch Daten">>
                /\ saveOk' = <<>>
                /\ UNCHANGED savedProposal
           ELSE IF p[1].context = <<>> \/ p[1].nearby = <<>>
           THEN /\ saveError' = <<"BEST hat keine Daten">>
                /\ saveOk' = <<>>
                /\ UNCHANGED savedProposal
           ELSE \E outcome \in PostOutcomes :
                /\ savedProposal' = <<SavePayload(p[1])>>
                /\ saveError' = IF outcome = "failed"
                                THEN <<"Save-Fehler">> ELSE <<>>
                /\ saveOk' = IF outcome = "saved"
                             THEN <<"Gespeichert!">> ELSE <<>>
    /\ proposalsPc' = "saveBestToBackend"
    /\ UNCHANGED <<proposals, selectedId, compareIds, proposalCalls, dateNow>>
    /\ UNCHANGED nonProposalsVars

ProposalsNext ==
    \/ ProposalClick
    \/ ProposalFetchSettles
    \/ ToggleCompare
    \/ MarkBest
    \/ AutoPickBest
    \/ RemoveProposal
    \/ ClearCompare
    \/ ClearAll

SavingNext ==
    \/ SavedProposalClick
    \/ ProposalFetchSettles
    \/ ToggleCompare
    \/ MarkBest
    \/ SaveBestToBackend

----
(* Properties of the nearest-neighbour search *)

\* Brute-force linear scan: the least haversineDistanceMeters(target, s)
\* over the stations, Infinity for none.
RECURSIVE LinearScanMinDistance(_, _)
LinearScanMinDistance(sts, tgt) ==
    IF sts = <<>> THEN Infinity
    ELSE Min(LinearScanMinDistance(Front(sts), tgt),
             haversineDistanceMeters(tgt, Last(sts)))

\* C1: for a non-empty station set, a search with limit 1 returns a station
\* at the least haversine distance a linear scan of the stations finds.
C1_NearestIsLinearScanMinimum ==
    (pc = "done" /\ limit = 1 /\ stations # <<>>) =>
        /\ Len(searchResult) = 1
        /\ searchResult[1].distanceMeters
               = LinearScanMinDistance(stations, target)

\* C2: a finished search returns exactly min(limit, number of stations)
\* entries, and no station twice.
C2_ResultLength ==
    pc = "done" =>
        /\ Len(searchResult) = Min(limit, Len(stations))
        /\ \A i, j \in 1..Len(searchResult) :
               searchResult[i].id = searchResult[j].id => i = j
        /\ \A i \in 1..Len(searchResult) :
               \E n \in 1..Len(stations) : stations[n].id = searchResult[i].id

\* C2 witness: a finished search for the 2 nearest of 4 stations.
C2_Witness ==
    /\ pc = "done"
    /\ limit = 2
    /\ Len(stations) = 4
    /\ Len(searchResult) = 2

IsSortedByDistance(hits) ==
    \A i \in 1..(Len(hits) - 1) :
        hits[i].distanceMeters <= hits[i + 1].distanceMeters

\* C3: the candidate list is non-decreasing in distanceMeters in every state
\* of the traversal (after every tryInsert), and so is the returned list.
C3_BestSorted ==
    /\ IsSortedByDistance(best)
    /\ IsSortedByDistance(searchResult)

\* C3 witness: in the middle of a traversal three candidates are kept; the
\* root's station, inserted first, stands second, so the sort has moved a
\* station inserted later in front of it.
C3_Witness ==
    /\ pc = "searching"
    /\ callStack # <<>>
    /\ Len(best) = 3
    /\ best[1].distanceMeters < best[2].distanceMeters
    /\ best[2].distanceMeters < best[3].distanceMeters
    /\ best[1].id # tree.station.id
    /\ best[2].id = tree.station.id

\* C4: with an empty station array every search ends, keeps no candidate on
\* the way and returns the empty list.
C4_EmptyStations ==
    stations = <<>> =>
        /\ best = <<>>
        /\ searchResult = <<>>
        /\ pc = "searching" => ENABLED SearchNext

C4_Witness ==
    /\ stations = <<>>
    /\ pc = "done"
    /\ limit = 3
    /\ target = [lat |-> 80000, lng |-> 0]
    /\ searchResult = <<>>

\* Distance of station s from the target of the finished search.
DistanceOf(s) == haversineDistanceMeters(target, s)

\* C5: stations at exactly the same distance from the target appear in the
\* result in the order of the input array, and of such stations the earlier
\* ones of the input are the ones kept.
C5_TiesInInputOrder ==
    pc = "done" =>
        /\ \A i, j \in 1..Len(searchResult) :
               (i < j /\ searchResult[i].distanceMeters
                           = searchResult[j].distanceMeters)
                   => searchResult[i].id < searchResult[j].id
        /\ \A i \in 1..Len(searchResult), n \in 1..Len(stations) :
               ( /\ DistanceOf(stations[n]) = searchResult[i].distanceMeters
                 /\ \A j \in 1..Len(searchResult) :
                        searchResult[j].id # stations[n].id )
                   => searchResult[i].id < stations[n].id

----------------------------------------------------------------------------
(* Properties of markCoverageGaps *)

\* C6: a marked cell is covered exactly when some station lies within its
\* own coverageRadiusMeters of the cell centre, the radius itself included;
\* the cells come back in order with id and centre as given; with no
\* station no cell is covered.
C6_CoveredIffSomeStationInRadius ==
    covPc = "marked" =>
        /\ Len(coverageCells) = Len(gridCells)
        /\ \A i \in 1..Len(coverageCells) :
               /\ coverageCells[i].id = gridCells[i].id
               /\ coverageCells[i].center = gridCells[i].center
               /\ coverageCells[i].covered <=>
                      \E n \in 1..Len(existingStations) :
                          HaversineTable[<<gridCells[i].center[1],
                                           existingStations[n].lat,
                                           Abs(existingStations[n].lng
                                               - gridCells[i].center[2])>>]
                              <= existingStations[n].coverageRadiusMeters
               /\ existingStations = <<>> => ~coverageCells[i].covered

\* C6 witness: two cells, the first covered by a single station exactly its
\* radius (445 m) away, the second out of reach of it.
C6_Witness ==
    /\ covPc = "marked"
    /\ Len(existingStations) = 1
    /\ existingStations[1].coverageRadiusMeters = 445
    /\ Len(coverageCells) = 2
    /\ HaversineTable[<<coverageCells[1].center[1], existingStations[1].lat,
                        0>>] = 445
    /\ coverageCells[1].covered
    /\ ~coverageCells[2].covered

\* C7: marking the same cells again with one station more leaves every
\* covered cell covered.
C7_CoverageMonotone ==
    [][(covPc = "marked" /\ covPc' = "marked") =>
          \A i \in 1..Len(coverageCells) :
              coverageCells[i].covered => coverageCells'[i].covered]_vars

\* C7 witness: after a station was added, a cell is covered although the
\* station that came last in the array does not reach it.
C7_Witness ==
    /\ covPc = "marked"
    /\ Len(existingStations) = 2
    /\ \E i \in 1..Len(coverageCells) :
           /\ coverageCells[i].covered
           /\ ~Covers([lat |-> coverageCells[i].center[1],
                       lng |-> coverageCells[i].center[2]],
                      existingStations[2])

----------------------------------------------------------------------------
(* Properties of computeHeatPoints *)

\* C8: every intensity computeHeatPoints puts out lies in [0, 1.25] (0 to
\* 1250 thousandths), one heat point per grid cell, for every grid, station
\* list (the empty one too) and weights in [0, 1.5]^4.
C8_IntensityBounds ==
    heatPc = "computed" =>
        /\ Len(heatPoints) = Len(heatGrid)
        /\ \A i \in 1..Len(heatPoints) :
               /\ heatPoints[i][3] >= 0
               /\ heatPoints[i][3] <= 1250

\* C8 witness: with all weights 1.5, a cell with all layers 0 right on a
\* station would come out below 0 and is put out as 0, and a cell with all
\* layers 1 far from it would come out above 1.25 and is put out as 1.25.
C8_Witness ==
    /\ heatPc = "computed"
    /\ Len(heatGrid) = 2
    /\ heatStations # <<>>
    /\ heatWeights = [population |-> 15000, poi |-> 15000, transit |-> 15000,
                      coverage |-> 15000]
    /\ staticLayerScore(heatGrid[1].layerScores, heatWeights)
           + coverageEffect(heatGrid[1], heatStations, 15000) < 0
    /\ heatPoints[1][3] = 0
    /\ staticLayerScore(heatGrid[2].layerScores, heatWeights)
           + coverageEffect(heatGrid[2], heatStations, 15000) > 12500
    /\ heatPoints[2][3] = 1250

----------------------------------------------------------------------------
(* Properties of computeScore and mapScoreToBand *)

\* C9: for every input with finite fields, inside or outside the documented
\* ranges, the score computeScore returns is an integer from 0 to 100.
C9_ScoreRange ==
    scorePc = "scored" => scoreResult.score \in 0..100

\* C9 witness: every field of the input lies outside its documented range,
\* on the side that lowers the score, and the score is 0.
C9_Witness ==
    /\ scorePc = "scored"
    /\ scoreInput = [coverageRatio |-> -50, populationDensity |-> -1000,
                     nearbyUtilization |-> -10, congestionLevel |-> 200,
                     poiCount |-> -5, transitProximity |-> 5000]
    /\ scoreResult.score = 0

\* The band the thresholds 75 and 50 give a score.
BandOfScore(score, id) ==
    /\ id \in {"excellent", "caution", "unsuitable"}
    /\ id = "excellent" <=> score >= 75
    /\ id = "caution" <=> (50 <= score /\ score < 75)
    /\ id = "unsuitable" <=> score < 50

\* C10: the band of a result of computeScore, and the band mapScoreToBand
\* gives any score of 0..100, is excellent exactly from 75 on, caution
\* exactly from 50 to 74 and unsuitable exactly below 50.
C10_BandThresholds ==
    /\ scorePc = "scored" =>
           BandOfScore(scoreResult.score, scoreResult.band.id)
    /\ scorePc = "mapped" => BandOfScore(bandScore, bandResult.id)

\* C10 witness: an input inside the documented ranges scores exactly 75 and
\* falls in the band excellent.
C10_Witness ==
    /\ scorePc = "scored"
    /\ scoreInput = [coverageRatio |-> 75, populationDensity |-> 11250,
                     nearbyUtilization |-> 75, congestionLevel |-> 25,
                     poiCount |-> 30, transitProximity |-> 300]
    /\ scoreResult.score = 75
    /\ scoreResult.band.id = "excellent"

----------------------------------------------------------------------------
(* Properties of the score formula *)

\* The value n / d clamped into [0, 1], in 1/NormScale.
ClampedRatio(n, d) ==
    IF n <= 0 THEN 0
    ELSE IF n >= d THEN NormScale
    ELSE (n * NormScale) \div d

\* The weights of the six factors (hundredths), in the order coverage,
\* density, utilization, congestion, POI count, transit distance.
StatedWeights == <<25, 20, 20, 10, 15, 10>>

\* The normalised values of the six factors (1/NormScale), in that order.
StatedNormalizedValues(input) ==
    << ClampedRatio(input.coverageRatio, 100),
       ClampedRatio(input.populationDensity, 15000),
       ClampedRatio(input.nearbyUtilization, 100),
       NormScale - ClampedRatio(input.congestionLevel, 100),
       ClampedRatio(input.poiCount, 40),
       NormScale - ClampedRatio(input.transitProximity, 1200) >>

RECURSIVE SumOf(_)
SumOf(seq) == IF seq = <<>> THEN 0 ELSE SumOf(Front(seq)) + Last(seq)

\* The input (0.9, 12000, 80, 0.1, 30, 200).
StatedExampleInput ==
    [coverageRatio |-> 90, populationDensity |-> 12000,
     nearbyUtilization |-> 80, congestionLevel |-> 10,
     poiCount |-> 30, transitProximity |-> 200]

\* C11: the breakdown computeScore returns has exactly six entries, entry i
\* carrying the i-th stated weight, the i-th stated normalised value and
\* their product as contribution; the score is an integer nearest to 100
\* times the sum of the contributions over the total weight; and the input
\* (0.9, 12000, 80, 0.1, 30, 200) scores 83 in the band excellent.
C11_ScoreFormula ==
    scorePc = "scored" =>
        LET normalized == StatedNormalizedValues(scoreInput)
            products == [i \in 1..6 |-> StatedWeights[i] * normalized[i]]
            weightedSum == SumOf(products)
            totalWeight == SumOf(StatedWeights)
        IN  /\ Len(scoreResult.breakdown) = 6
            /\ \A i \in 1..6 :
                   /\ scoreResult.breakdown[i].weight = StatedWeights[i]
                   /\ scoreResult.breakdown[i].normalizedValue = normalized[i]
                   /\ scoreResult.breakdown[i].contribution = products[i]
            /\ scoreResult.totalWeight = totalWeight
            /\ 2 * Abs(scoreResult.score * totalWeight * NormScale
                           - 100 * weightedSum) <= totalWeight * NormScale
            /\ scoreInput = StatedExampleInput =>
                   /\ scoreResult.score = 83
                   /\ scoreResult.band.id = "excellent"

\* C11 witness: the example input has been scored, 83 and excellent.
C11_Witness ==
    /\ scorePc = "scored"
    /\ scoreInput = StatedExampleInput
    /\ scoreResult.score = 83
    /\ scoreResult.band.id = "excellent"
    /\ Len(scoreResult.breakdown) = 6

----------------------------------------------------------------------------
(* Properties of calculateScore *)

\* Twice the raw total the counts, the distance and the number of stations
\* in the radius give, missing fields counting as 0:
\* 2 * (2*schools + 3*universities + 0.5*shops + 0.5*busStops + 1.5*rail
\*      + min(20, round(distance / 100)) - min(30, 3 * stationsInRadius)).
StatedRawHalves(ctx, nb) ==
    LET Value(field) == IF Len(field) = 0 THEN 0 ELSE field[1]
        distance == Value(nb.nearest_station_distance_m)
        \* the integer nearest to distance / 100, a half rounded up
        rounded == CHOOSE k \in -1..(distance \div 100 + 1) :
                       /\ 100 * k - 50 <= distance
                       /\ distance < 100 * k + 50
        bonus == IF rounded < 20 THEN rounded ELSE 20
        penalty == IF 3 * Value(nb.stations_in_radius) < 30
                   THEN 3 * Value(nb.stations_in_radius) ELSE 30
    IN  4 * Value(ctx.schools) + 6 * Value(ctx.universities)
        + Value(ctx.shops) + Value(ctx.bus_stops)
        + 3 * Value(ctx.railway_stations) + 2 * bonus - 2 * penalty

\* The last call returned the stated raw total, and a normalizedTotal of
\* 0..100 that is 0 for a raw total of 0 or less and otherwise the integer
\* nearest to 100 * raw / (raw + 60).
CalcResultAsStated ==
    (calcPc = "done" /\ calcScore # <<>>) =>
        LET result == calcScore[1]
            raw2 == StatedRawHalves(calcCtx[1], calcNb[1])
        IN  /\ result.rawTotalHalves = raw2
            /\ result.normalizedTotal \in 0..100
            /\ raw2 <= 0 => result.normalizedTotal = 0
            /\ raw2 > 0 =>
                   /\ (2 * result.normalizedTotal - 1) * (raw2 + 120)
                          <= 200 * raw2
                   /\ 200 * raw2
                          < (2 * result.normalizedTotal + 1) * (raw2 + 120)

\* Of two calls in a row, the one with the greater or equal raw total
\* returns the greater or equal normalizedTotal.
CalcNonDecreasingInRaw ==
    (calcPc = "done" /\ calcScore # <<>> /\ calcScore' # <<>>
     /\ calcScore[1].rawTotalHalves <= calcScore'[1].rawTotalHalves)
    => calcScore[1].normalizedTotal <= calcScore'[1].normalizedTotal

----------------------------------------------------------------------------
(* Properties of buildHexGrid *)

\* The input is degenerate: no seed, a cell radius of 0 or less, or seeds
\* whose bounding box has no area.
DegenerateGridInput ==
    \/ hexSeeds = <<>>
    \/ hexRadius <= 0
    \/ computeBounds(hexSeeds).minLat = computeBounds(hexSeeds).maxLat
    \/ computeBounds(hexSeeds).minLng = computeBounds(hexSeeds).maxLng

\* C13: for a degenerate input buildHexGrid terminates and returns the empty
\* cell list.  cells is only ever appended to, so a call that returns the
\* empty list never holds a cell: on a degenerate input no state of the call
\* has a cell in cells.
C13_DegenerateGridEmpty ==
    (hexPc # "idle" /\ DegenerateGridInput) => hexCells = <<>>

\* C14: for non-empty seeds and a cell radius above 0, every seed lies
\* within cellRadiusMeters of the center of some cell of the returned grid.
C14_SeedsWithinCellRadius ==
    (hexPc = "done" /\ hexSeeds # <<>> /\ hexRadius > 0) =>
        \A i \in 1..Len(hexSeeds) :
            \E j \in 1..Len(hexCells) :
                hexHaversineDistanceMeters(hexSeeds[i], hexCells[j].center)
                    <= hexRadius

----------------------------------------------------------------------------
(* Properties of computeScore with a total weight of 0 *)

\* C15: with a total factor weight of 0, computeScore returns the score 0
\* with one of the three bands.
C15_ZeroTotalWeightScoresZero ==
    (scorePc = "scored" /\ SumWeights(scoreFactors) = 0) =>
        /\ scoreResult.score = 0
        /\ scoreResult.band.id \in {"excellent", "caution", "unsuitable"}

----------------------------------------------------------------------------
(* Properties of the combined static score *)

\* The average of the layers weighted by the weights that are not 0, in
\* 1/HeatScale; 0 when every weight is 0.
AverageOfWeightedLayers(layers, weights) ==
    LET used == {l \in {"population", "poi", "transit"} : weights[l] # 0}
        Term(l) == IF l \in used THEN layers[l] * weights[l] ELSE 0
        Weight(l) == IF l \in used THEN weights[l] ELSE 0
        sum == Term("population") + Term("poi") + Term("transit")
        total == Weight("population") + Weight("poi") + Weight("transit")
    IN  IF used = {} THEN 0 ELSE (2 * sum + total) \div (2 * total)

\* C16: with the population, poi and transit weights all 0 the combined
\* static score of every cell is 0, and each heat value is the coverage
\* adjustment clamped to [0, 1.25] (put out with three decimals); a layer
\* whose weight is 0 has no part in the weighted average, which is then the
\* average of the other layers by their weights.
C16_ZeroLayerWeights ==
    heatPc = "computed" =>
        \A i \in 1..Len(heatGrid) :
            LET cell == heatGrid[i]
                static == AverageOfWeightedLayers(cell.layerScores, heatWeights)
                adjustment ==
                    coverageEffect(cell, heatStations, heatWeights.coverage)
                clamped == IF static + adjustment < 0 THEN 0
                           ELSE IF static + adjustment > 12500 THEN 12500
                           ELSE static + adjustment
            IN  /\ (heatWeights.population = 0 /\ heatWeights.poi = 0
                    /\ heatWeights.transit = 0) => static = 0
                /\ heatPoints[i][3] = ToFixed3(clamped)

\* C16 witness: the three layer weights are 0 and the coverage weight 1.5; a
\* cell with every layer at 1 lies 445 m from the only station and its heat
\* value is the coverage adjustment alone, 0.271.
C16_Witness ==
    /\ heatPc = "computed"
    /\ heatWeights = [population |-> 0, poi |-> 0, transit |-> 0,
                      coverage |-> 15000]
    /\ Len(heatStations) = 1
    /\ Len(heatGrid) >= 1
    /\ heatGrid[1].layerScores
           = [population |-> 10000, poi |-> 10000, transit |-> 10000]
    /\ findNearestStationDistance(heatGrid[1], heatStations) = 445
    /\ heatPoints[1][3] = 271

----------------------------------------------------------------------------
(* Properties of the static layers *)

\* C17: in each of the three layers every normalised value lies in [0, 1]
\* and, unless the raw values of the layer are all equal, a point with the
\* least raw value has the normalised value 0 and a point with the greatest
\* raw value has the normalised value 1.
C17_LayersMinMaxNormalized ==
    basePc = "created" =>
        \A layer \in {"population", "poi", "transit"} :
            LET n == Len(baseGridPoints)
                raw == [i \in 1..n |-> scoreFromHotspots(baseGridPoints[i], layer)]
                value == [i \in 1..n |-> baseGrid[i].layerScores[layer]]
            IN  /\ \A i \in 1..n : value[i] >= 0 /\ value[i] <= HeatScale
                /\ (\E i, j \in 1..n : raw[i] # raw[j]) =>
                       \A i \in 1..n :
                           /\ (\A j \in 1..n : raw[i] <= raw[j]) => value[i] = 0
                           /\ (\A j \in 1..n : raw[i] >= raw[j])
                                  => value[i] = HeatScale

----------------------------------------------------------------------------
(* Properties of mapExistingStations *)

\* The radius lies in [400, 500], is 400 for a missing capacity, and of two
\* stations with a capacity the one with the greater or equal capacity has
\* the greater or equal radius.
RadiusBoundedAndMonotone ==
    \A i \in 1..Len(rawStations) :
        /\ mappedStations[i].coverageRadiusMeters >= 400
        /\ mappedStations[i].coverageRadiusMeters <= 500
        /\ rawStations[i].capacity = <<>>
               => mappedStations[i].coverageRadiusMeters = 400
        /\ \A j \in 1..Len(rawStations) :
               (/\ rawStations[i].capacity # <<>>
                /\ rawStations[j].capacity # <<>>
                /\ rawStations[i].capacity[1] <= rawStations[j].capacity[1])
               => mappedStations[i].coverageRadiusMeters
                      <= mappedStations[j].coverageRadiusMeters

\* min(400 + (min(capacity, 20) / 20) * 100, 500), a missing capacity as 0
RadiusOfCappedCapacity(capacity) ==
    LET c == IF capacity = <<>> THEN 0 ELSE capacity[1]
        capped == IF c < 20 THEN c ELSE 20
    IN  IF 400 + 5 * capped < 500 THEN 400 + 5 * capped ELSE 500

\* min(400 + (min(max(capacity, 0), 20) / 20) * 100, 500), a missing
\* capacity as 0
RadiusOfClampedCapacity(capacity) ==
    LET c == IF capacity = <<>> THEN 0 ELSE capacity[1]
    IN  IF c <= 0 THEN 400 ELSE IF c >= 20 THEN 500 ELSE 400 + 5 * c

\* C18 as stated: every mapped station has the radius
\* min(400 + (min(capacity, 20) / 20) * 100, 500), in [400, 500] for every
\* capacity, 400 for a missing one, and non-decreasing in capacity.
C18_RadiusAsStated ==
    mapPc = "mapped" =>
        /\ Len(mappedStations) = Len(rawStations)
        /\ \A i \in 1..Len(rawStations) :
               mappedStations[i].coverageRadiusMeters
                   = RadiusOfCappedCapacity(rawStations[i].capacity)
        /\ RadiusBoundedAndMonotone

\* C18 amended: every mapped station has the radius
\* min(400 + (min(max(capacity, 0), 20) / 20) * 100, 500), in [400, 500]
\* for every capacity, 400 for a missing one, and non-decreasing in capacity.
C18_RadiusOfClampedCapacity ==
    mapPc = "mapped" =>
        /\ Len(mappedStations) = Len(rawStations)
        /\ \A i \in 1..Len(rawStations) :
               mappedStations[i].coverageRadiusMeters
                   = RadiusOfClampedCapacity(rawStations[i].capacity)
        /\ RadiusBoundedAndMonotone

\* C18 witness: stations with the capacities -5, 7 and 35 have been mapped
\* to the radii 400, 435 and 500.
C18_Witness ==
    /\ mapPc = "mapped"
    /\ Len(rawStations) = 3
    /\ rawStations[1].capacity = <<-5>>
    /\ rawStations[2].capacity = <<7>>
    /\ rawStations[3].capacity = <<35>>
    /\ mappedStations[1].coverageRadiusMeters = 400
    /\ mappedStations[2].coverageRadiusMeters = 435
    /\ mappedStations[3].coverageRadiusMeters = 500

----------------------------------------------------------------------------
(* Frame of the index and of the coverage marking *)

-----------------------------------------------------------------------------
(* Properties of addStation and of the clicks on the map *)

IdsOf(list) == {list[i].id : i \in 1..Len(list)}

\* A click appended exactly one station: the clicked position, the label
\* supplied, an id no station of the list had, that id returned, and the
\* stations that were there before unchanged and in the same order.
ClickAppendsOneStation ==
    clicks' = clicks + 1 =>
        /\ Len(planningStations') = Len(planningStations) + 1
        /\ SubSeq(planningStations', 1, Len(planningStations))
               = planningStations
        /\ Last(planningStations').lat = lastClick'[1].lat
        /\ Last(planningStations').lng = lastClick'[1].lng
        /\ Last(planningStations').label = lastClick'[1].label
        /\ Last(planningStations').id \notin IdsOf(planningStations)
        /\ returnedId' = <<Last(planningStations').id>>

\* One marker is drawn for each station of the list: n clicks after the
\* list was last cleared (or loaded) have added n markers.
MarkersAsClicked == Len(planningStations) = baseCount + clicks

\* C20: each map click (addStation) appends exactly one station carrying the
\* clicked lat/lng, the supplied label and a fresh id distinct from all
\* existing ids, returns that id and leaves the earlier stations unchanged
\* and in order; so after n clicks with no clear there are n markers.
C20_ClickAddsOneMarker ==
    /\ []MarkersAsClicked
    /\ [][ClickAppendsOneStation]_vars

-----------------------------------------------------------------------------
(* Properties of the pruning of the far side *)

\* The stations held by a subtree.
RECURSIVE StationsOf(_)
StationsOf(node) ==
    IF node.isNull THEN {}
    ELSE {node.station} \cup StationsOf(node.left) \cup StationsOf(node.right)

\* The step in which traverse returns without visiting the far side.
FarSideSkipped ==
    /\ pc = "searching"
    /\ callStack # <<>>
    /\ Last(callStack).at = "afterPrimary"
    /\ callStack' = Front(callStack)

\* C21: whenever the far-side subtree of a node is skipped during a query,
\* no station in it is strictly closer (by haversine) to the target than the
\* worst candidate kept at that moment, also for targets near the poles or
\* across the antimeridian.
C21_PrunedSubtreeHoldsNoCloserStation ==
    [][FarSideSkipped =>
         \A s \in StationsOf(Secondary(target, Last(callStack).node)) :
             haversineDistanceMeters(target, s) >= WorstDistance(best)]_vars

-----------------------------------------------------------------------------
(* Properties of the walk of buildHexGrid *)

CenterLat(cell) == cell.center[1]

CenterLng(cell) == cell.center[2]

\* Consecutive columns of a row differ by lngStep, consecutive rows by
\* latStep; a row begins at minLng, plus the row offset on odd rows, and
\* row 0 lies at minLat.
RowsAndColumnsInSteps ==
    LET box == Expanded(hexSeeds, hexRadius)
        latStep == LatStep(hexRadius)
        lngStep == LngStep(hexSeeds, hexRadius)
        lngOffset == LngOffset(hexSeeds, hexRadius)
        BeginsRow(i) == i = 1 \/ hexCells[i - 1].row # hexCells[i].row
    IN  \A i \in 1..Len(hexCells) :
            /\ CenterLat(hexCells[i])
                   = box.minLat + hexCells[i].row * latStep
            /\ IF BeginsRow(i)
               THEN CenterLng(hexCells[i])
                        = box.minLng
                            + (IF hexCells[i].row % 2 = 1 THEN lngOffset
                               ELSE 0)
               ELSE CenterLng(hexCells[i])
                        = CenterLng(hexCells[i - 1]) + lngStep

\* Every center lies in the expanded bounding box.
CentersInsideExpandedBox ==
    LET box == Expanded(hexSeeds, hexRadius)
    IN  \A i \in 1..Len(hexCells) :
            /\ box.minLat <= CenterLat(hexCells[i])
            /\ CenterLat(hexCells[i]) <= box.maxLat
            /\ box.minLng <= CenterLng(hexCells[i])
            /\ CenterLng(hexCells[i]) <= box.maxLng

\* Every center lies at most one step beyond maxLat and maxLng.
CentersWithinOneStepOfBox ==
    LET box == Expanded(hexSeeds, hexRadius)
    IN  \A i \in 1..Len(hexCells) :
            /\ CenterLat(hexCells[i]) <= box.maxLat + LatStep(hexRadius)
            /\ CenterLng(hexCells[i])
                   <= box.maxLng + LngStep(hexSeeds, hexRadius)

\* C22 as stated: rows from minLat to maxLat, columns from minLng (plus the
\* row offset on odd rows) to maxLng: every center has its latitude in
\* [minLat, maxLat] and its longitude in [minLng, maxLng] of the expanded
\* box, rows differ by latStep and columns of a row by lngStep.
C22_CentersInsideBox ==
    hexSeeds # <<>> => (CentersInsideExpandedBox /\ RowsAndColumnsInSteps)

\* C22: the walk runs one step beyond the box: the center of row r has
\* latitude minLat + r * latStep, at most maxLat + latStep; a row begins at
\* minLng (plus the row offset on odd rows), its columns differ by lngStep
\* and reach at most maxLng + lngStep.
C22_CentersWithinOneStep ==
    hexSeeds # <<>> => (CentersWithinOneStepOfBox /\ RowsAndColumnsInSteps)

C22_Witness ==
    /\ hexPc = "done"
    /\ hexRadius = 500
    /\ Len(hexSeeds) = 2
    /\ \E i \in 1..Len(hexCells) :
           CenterLat(hexCells[i]) > Expanded(hexSeeds, hexRadius).maxLat
    /\ \E i \in 1..Len(hexCells) :
           CenterLng(hexCells[i]) > Expanded(hexSeeds, hexRadius).maxLng
    /\ \E i \in 2..Len(hexCells) :
           /\ hexCells[i].row % 2 = 1
           /\ hexCells[i - 1].row = hexCells[i].row

-----------------------------------------------------------------------------
(* Properties of the single-point planning view *)

\* Every fetch of every click has answered or failed.
AllFetchesSettled ==
    \A i \in 1..Len(handleClickCalls) :
        /\ handleClickCalls[i].ctx # "pending"
        /\ handleClickCalls[i].nb # "pending"

\* What is displayed was requested for the point clicked last.
DisplayedBelongsToPoint ==
    /\ context # <<>> => context[1].requestedFor = viewPoint[1]
    /\ nearby # <<>> => nearby[1].requestedFor = viewPoint[1]
    /\ error # <<>> => error[1].requestedFor = viewPoint[1]

\* C23: when the user clicks again while the fetches of an earlier click are
\* in flight, stale results are discarded: under every interleaving of the
\* completions, once all fetches have settled the displayed context, nearby
\* data and error belong to the point clicked last.
C23_StaleResultsDiscarded ==
    (handleClickCalls # <<>> /\ AllFetchesSettled) => DisplayedBelongsToPoint

-----------------------------------------------------------------------------
(* Properties of the debounced recomputation *)

AtMostOneTimerPending == Cardinality(pendingTimers) <= 1

\* The step in which a timer fires and the heat points are recomputed.
RecomputationRuns ==
    /\ pendingTimers # {}
    /\ pendingTimers' \subseteq pendingTimers
    /\ pendingTimers' # pendingTimers

\* The stations and weights the timer that fires in this step computes with.
FiringTimer == CHOOSE t \in pendingTimers : t \notin pendingTimers'

\* The recomputation of this step uses the current stations and weights.
RecomputationWithLatest ==
    RecomputationRuns =>
        /\ FiringTimer.stations = heatStations
        /\ FiringTimer.weights = heatWeights

\* The recomputation of this step uses the current stations and weights
\* unless a change has happened whose effect has not run yet.
RecomputationWithLatestOrEffectPending ==
    RecomputationRuns =>
        \/ effectPending
        \/ /\ FiringTimer.stations = heatStations
           /\ FiringTimer.weights = heatWeights

HeatPointsUpToDate ==
    heatPoints = computeHeatPoints(heatGrid, heatStations, heatWeights)

\* C24 as stated: every change of stations or weights cancels the pending
\* timer before a new one is scheduled, so at most one timer is pending at
\* any time, a recomputation never runs with superseded stations or weights,
\* and once changes stop heatPoints eventually equals
\* computeHeatPoints(baseGrid, latest stations, latest weights).
C24_DebouncedNeverSuperseded ==
    /\ []AtMostOneTimerPending
    /\ [][RecomputationWithLatest]_vars
    /\ <>[]HeatPointsUpToDate

\* C24: at most one timer is pending at any time; a recomputation runs with
\* the stations and weights of the render that set its timer, which are the
\* current ones unless a change has happened whose effect has not run yet;
\* and once changes stop heatPoints eventually equals
\* computeHeatPoints(baseGrid, latest stations, latest weights).
C24_Debounced ==
    /\ []AtMostOneTimerPending
    /\ [][RecomputationWithLatestOrEffectPending]_vars
    /\ <>[]HeatPointsUpToDate

C24_Witness ==
    /\ changes >= 2
    /\ pendingTimers = {}
    /\ ~effectPending
    /\ effectRuns >= 2
    /\ HeatPointsUpToDate
    /\ heatStations # <<>>
    /\ heatWeights # DEFAULT_WEIGHTS

-----------------------------------------------------------------------------
(* Properties of the saving and the loading of the planned stations *)

PlanningActionNames ==
    {"addStation", "updateLabel", "updateManualSlots", "clearStations"}

\* The storage entry holds the JSON of the list that is the state, and the
\* query parameter holds the same JSON or, for the empty list, is absent.
SavedAfterEveryAction ==
    planPc \in PlanningActionNames =>
        /\ storedStations = <<JSONStringify(planningStations)>>
        /\ urlStations = IF planningStations = <<>> THEN <<>>
                         ELSE <<JSONStringify(planningStations)>>

\* A page loaded after a planning action has the list that action has set.
RestoredOnReload ==
    (planPc \in PlanningActionNames /\ planPc' = "loaded") =>
        planningStations' = planningStations

\* A loaded page has the list of the query parameter where there is one,
\* else the list of the storage entry, else the empty list.
QueryPreferredOnLoad ==
    planPc = "loaded" =>
        IF urlStations # <<>>
        THEN JSONStringify(planningStations) = urlStations[1]
        ELSE IF storedStations # <<>>
        THEN JSONStringify(planningStations) = storedStations[1]
        ELSE planningStations = <<>>

-----------------------------------------------------------------------------
(* Properties of the label update after the reverse geocoding *)

\* The step in which a reverse-geocoding request answers.
LookupAnswers ==
    /\ lookupsInFlight' # lookupsInFlight
    /\ lookupsInFlight' \subseteq lookupsInFlight

AnsweredLookup == CHOOSE l \in lookupsInFlight : l \notin lookupsInFlight'

\* The list after the step has the stations of the list before it, in the
\* same order, and only stations with the id of the lookup may differ, in
\* their label alone.
OnlyLabelOfLookedUpStationChanges ==
    /\ Len(planningStations') = Len(planningStations)
    /\ \A i \in 1..Len(planningStations) :
           IF planningStations[i].id = AnsweredLookup.stationId
           THEN [planningStations'[i] EXCEPT
                     !.label = planningStations[i].label]
                    = planningStations[i]
           ELSE planningStations'[i] = planningStations[i]

\* C26: a station created by a map click is still in the list of planned
\* stations (state and storage) after its delayed reverse-geocode lookup
\* completes: the updateLabel of the timer callback changes only that
\* station's label and neither removes the new station nor drops a station
\* added in the meantime.
C26_LookupKeepsStations ==
    [][LookupAnswers =>
          /\ OnlyLabelOfLookedUpStationChanges
          /\ storedStations' = <<JSONStringify(planningStations')>>]_vars

-----------------------------------------------------------------------------
(* Properties of the fetch completions of the proposals *)

\* The ids of the calls of handleClick that settle in the step.
SettlingIds ==
    {proposalCalls[i].id : i \in
        {j \in 1..Len(proposalCalls) :
            /\ Len(proposalCalls') = Len(proposalCalls)
            /\ ~proposalCalls[j].settled
            /\ proposalCalls'[j].settled}}

\* The completion keeps the list as long as it was and every proposal with
\* another id as it was; the proposals with the id keep id, name and place
\* and are no longer loading.
CompletionUpdatesOnlyItsId ==
    /\ Len(proposals') = Len(proposals)
    /\ \A i \in 1..Len(proposals) :
        IF proposals[i].id \in SettlingIds
        THEN /\ proposals'[i].id = proposals[i].id
             /\ proposals'[i].name = proposals[i].name
             /\ proposals'[i].lat = proposals[i].lat
             /\ proposals'[i].lng = proposals[i].lng
             /\ ~proposals'[i].loading
        ELSE proposals'[i] = proposals[i]
    /\ UNCHANGED <<selectedId, compareIds, bestId>>

\* A proposal is loading only while a call of handleClick with its id is
\* awaiting its fetches.
LoadingOnlyWhileInFlight ==
    \A i \in 1..Len(proposals) :
        proposals[i].loading =>
            \E j \in 1..Len(proposalCalls) :
                /\ proposalCalls[j].id = proposals[i].id
                /\ ~proposalCalls[j].settled

\* C27: a fetch completion, success or failure, updates only the proposals
\* with the id of its call; a completion that finds its proposal removed or
\* the list cleared adds nothing and changes no other proposal; and a
\* proposal in the list is loading only while a fetch for its id is in
\* flight.
C27_CompletionUpdatesOnlyItsProposal ==
    /\ []LoadingOnlyWhileInFlight
    /\ [][ProposalFetchSettles => CompletionUpdatesOnlyItsId]_vars

\* A late completion has run: its proposal had been removed, it changed no
\* proposal, and another proposal is in the list with its own data.
C27_Witness ==
    /\ proposalsPc = "handleClick:settled"
    /\ \E j \in 1..Len(proposalCalls) :
        /\ proposalCalls[j].settled
        /\ proposalCalls[j].updated = 0
    /\ \E i \in 1..Len(proposals) :
        /\ ~proposals[i].loading
        /\ proposals[i].context # <<>>

-----------------------------------------------------------------------------
(* Properties of BEST *)

\* bestId is null or the id of a proposal of the list that is compared.
BestIsCompared ==
    \/ bestId = <<>>
    \/ /\ \E i \in 1..Len(proposals) : proposals[i].id = bestId[1]
       /\ Includes(compareIds, bestId[1])

\* saveBestToBackend reached its POST in the step.
Posted ==
    /\ SaveBestToBackend
    /\ \/ saveOk' # <<>>
       \/ saveError' = <<"Save-Fehler">>

\* C28: after any sequence of the handlers bestId is null or the id of a
\* proposal that is in the list and compared, and saveBestToBackend posts
\* only a compared proposal.
C28_BestIsComparedProposal ==
    /\ []BestIsCompared
    /\ [][Posted => Includes(compareIds, ProposalToSave[1].id)]_vars

-----------------------------------------------------------------------------
(* Properties of autoPickBest *)

\* The compared proposal at index k has a maximal score and is the first
\* with it in the order of the proposals list.
FirstOfTheBest(cps, k) ==
    /\ \A j \in 1..Len(cps) : ScoreOrMinusOne(cps[j]) <= ScoreOrMinusOne(cps[k])
    /\ \A j \in 1..(k - 1) : ScoreOrMinusOne(cps[j]) < ScoreOrMinusOne(cps[k])

\* autoPickBest returns null exactly when no proposal is compared.
NullOnlyWhenNoneCompared ==
    (autoPickBest(compareProposals) = <<>>) <=> (compareProposals = <<>>)

\* What a run of autoPickBest does to bestId.
AutoPickSetsFirstOfTheBest ==
    IF compareProposals = <<>>
    THEN UNCHANGED bestId
    ELSE /\ bestId' = autoPickBest(compareProposals)
         /\ \E k \in 1..Len(compareProposals) :
             /\ bestId' = <<compareProposals[k].id>>
             /\ FirstOfTheBest(compareProposals, k)

\* C29: autoPickBest sets bestId to a compared proposal whose score
\* (-1 without data) is maximal among the compared ones, the first of them
\* in the proposals list on ties, and returns null only when none is
\* compared.
C29_AutoPickBestPicksFirstMaximum ==
    /\ []NullOnlyWhenNoneCompared
    /\ [][AutoPickBest => AutoPickSetsFirstOfTheBest]_vars

\* autoPickBest has run on a tie of two compared proposals with data that
\* were ticked in the opposite order: the first of the list is BEST.
C29_Witness ==
    /\ proposalsPc = "autoPickBest"
    /\ Len(compareProposals) = 2
    /\ compareProposals[1].context # <<>>
    /\ ScoreOrMinusOne(compareProposals[1])
           = ScoreOrMinusOne(compareProposals[2])
    /\ compareProposals[1].id # compareProposals[2].id
    /\ compareIds[1] = compareProposals[2].id
    /\ bestId = <<compareProposals[1].id>>

-----------------------------------------------------------------------------------------------------------------------------------------------------
(* Properties of the heat points under added stations *)

\* No heat value lies above the value the empty station list gives its
\* sample point.
AtMostTheValueWithoutStations ==
    \A i \in 1..Len(heatPoints) :
        heatPoints[i][3]
            <= computeHeatPoints(heatGrid, <<>>, heatWeights)[i][3]

\* The heat points after the step are those of the same sample points, none
\* with a greater value.
NoHeatValueIncreases ==
    /\ Len(heatPoints') = Len(heatPoints)
    /\ \A i \in 1..Len(heatPoints) :
        /\ heatPoints'[i][1] = heatPoints[i][1]
        /\ heatPoints'[i][2] = heatPoints[i][2]
        /\ heatPoints'[i][3] <= heatPoints[i][3]

\* C30: for a fixed grid and fixed non-negative weights, a station added to
\* the station list increases the heat value of no sample point, and every
\* value computed with stations is at most the value computed with the
\* empty list.
C30_AddedStationNeverRaisesHeat ==
    /\ []AtMostTheValueWithoutStations
    /\ [][AddHeatStation => NoHeatValueIncreases]_vars

\* Two stations were added: the second lowered the value of one sample
\* point and left the value of the other, which is positive, as it was.
C30_Witness ==
    /\ Len(heatStations) = 2
    /\ Len(heatGrid) = 2
    /\ heatWeights.coverage > 0
    /\ heatPoints[1][3]
           < computeHeatPoints(heatGrid, Front(heatStations), heatWeights)[1][3]
    /\ heatPoints[2][3]
           = computeHeatPoints(heatGrid, Front(heatStations), heatWeights)[2][3]
    /\ heatPoints[2][3] > 0
    /\ heatPoints[2][3]
           < computeHeatPoints(heatGrid, <<>>, heatWeights)[2][3]

----
(* Specifications *)

SpecSearch == SearchInit /\ [][SearchNext]_vars

SpecCoverage == CoverageInit /\ [][CoverageNext]_vars

SpecHeat == HeatInit /\ [][HeatNext]_vars

SpecScore == ScoreInit /\ [][ScoreNext]_vars

SpecCalc == CalcInit /\ [][CalcNext]_vars

SpecHexGrid == HexInit /\ [][HexNext]_vars

SpecScoreFactors == ScoreFactorsInit /\ [][ScoreNext]_vars

SpecBaseGrid == BaseGridInit /\ [][BaseGridNext]_vars

SpecMapStations == MapStationsInit /\ [][MapStationsNext]_vars

SpecIndexAndCoverage ==
    IndexAndCoverageInit /\ [][IndexAndCoverageNext]_vars

SpecPlanning == PlanningInit /\ [][PlanningNext]_vars

SpecView == ViewInit /\ [][ViewNext]_vars

SpecDebounce ==
    /\ DebounceInit
    /\ [][DebounceNext]_vars
    /\ WF_vars(RunDebounceEffect)
    /\ WF_vars(DebounceTimerFires)

SpecPersistence == PlanningInit /\ [][PersistenceNext]_vars

SpecProposals == ProposalsInit /\ [][ProposalsNext]_vars

SpecSaving == ProposalsInit /\ [][SavingNext]_vars

SpecAddedStations == HeatOfNoStationsInit /\ [][AddedStationsNext]_vars

====
